---- MODULE Spec2Model ----
(***************************************************************************)
(* Model of the LootMarket middleware: the invoke queue and its single     *)
(* worker thread (LootMarketHandler.py, LootMarketsSmartContract), the     *)
(* notification handler sc_notify that projects contract events into the   *)
(* redis cache, the reservation list cached_offers, and the API routes of  *)
(* LootMarketAPI.py that call add_invoke, test_invoke and claim_gas.       *)
(*                                                                         *)
(* Two threads exist in the program: the worker thread (run) and the       *)
(* reactor thread, which runs every API route handler to completion, one   *)
(* at a time.  The worker's steps interleave with the reactor's steps.     *)
(***************************************************************************)
EXTENDS Integers, Sequences, FiniteSets, TLC

\* ---------------------------------------------------------------- bounds
MaxOps == 2          \* number of add_invoke calls explored
MaxReserve == 1      \* length to which cached_offers may grow
ChainHeight == 1     \* Blockchain.Default().Height, fixed during a run
MaxHeight == 101     \* heights explored for the sync wait taken alone
MaxItems == 2        \* items given on the contract taken alone
MaxPut == 2          \* offers put on the contract taken alone

\* ------------------------------------------------------------- constants
SyncPercent == 99    \* percent_synced > 99 ends the sync wait

None == 0

max_seconds == 300   \* _wait_for_tx: the default ceiling of the poll
PollSleep == 5       \* _wait_for_tx: seconds slept between two queries

\* Operation names the callers enqueue / test invoke.
WriteOps == {"give_items", "buy_offer"}
\* the operations of the contract whose notification carries a result
ResultOps == {"give_items", "remove_item", "transfer_item", "buy_offer",
              "cancel_offer", "put_offer"}

\* the marketplace this deployment serves, and another one on the contract
marketplace == "LootClickerMarket"
Markets == {marketplace, "OtherMarket"}
OfferOps == {"buy_offer", "cancel_offer"}

\* Offer indices: 3 is a control byte, 65 is the printable byte 'A'.
OfferIdx == {3, 65}
\* transaction keys: the routes mint a fresh uuid4 for every add_invoke
Keys == 1..MaxOps

\* ------------------------------------------------------- offer id strings
\* An offer id string is modelled by its index and the form of its last
\* part: "raw" is 'offer' + chr(index), "esc" is 'offer' + the escaped text
\* '\\xNN' that str(bytes) produces, "dec" is 'offer' + decimal digits.
Printable(n) == n \in 32..126 /\ n # 39 /\ n # 92

\* buy_offer / cancel_offer / get_offer routes: 'offerN' -> offer_id_s
ApiOfferId(n) ==
    IF Printable(n) THEN [idx |-> n, form |-> "raw"]
                    ELSE [idx |-> n, form |-> "esc"]

\* the id the contract stores and notifies: marketplace + 'offer' + byte
ContractOfferId(n) == [idx |-> n, form |-> "raw"]

NoOffer == [idx |-> 0, form |-> "none"]

VARIABLES
    invoke_queue,     \* Queue(): sequence of tasks
    pc,               \* position of the worker thread in run / invoke_operation
    task,             \* the task the worker holds
    wallet,           \* self.wallet is not None
    walletdb_loop,    \* self._walletdb_loop is running
    tx_in_progress,   \* None or the sent transaction
    cached_offers,    \* the reservation list
    redis_tx,         \* cache: transaction_key -> ledger tx id
    redis_offers,     \* cache: "offers" (None or list of offer indices)
    redis_result,     \* cache: operation name + address -> success flag
    walletHeight,     \* wallet._current_height
    balances,         \* wallet.GetSyncedBalances(): "empty", "nogas", "gas"
    apc,              \* position of the reactor thread inside a route
    areq,             \* the request the reactor thread is serving
    \* ---- history variables (not program state)
    nextId,           \* number of add_invoke calls so far
    submitted,        \* the tasks (id, key) for which InvokeContract returned a
                      \* transaction, in order
    waitEnded,        \* number of submissions whose _wait_for_tx has returned
    completed,        \* task ids whose invoke_operation returned without error
    anyFail,          \* some invoke attempt raised
    attempt,          \* facts about the worker's current attempt
    ahead,            \* per task id: tasks that were waiting when it was re-queued
    lastRead,         \* last answer of the get_offers route, and the offer
                      \* indices that were reserved when it was given
    onchain,          \* ledger: the sent transactions that are in a block
    c_inventory,      \* contract storage: the inventory of the address
    redis_txfound,    \* cache: "tx" + transaction_key -> "True" / "False"
    redis_inventory,  \* cache: "inventory:" + address
    \* ---- history variables (not program state)
    enq,              \* per add_invoke call: operation name and offer index
    lastSearch,       \* last call of the search route and its answer
    redis_owner,      \* cache: "owner:" + marketplace
    redis_balance,    \* cache: "balance:" + address
    \* ---- history variables (not program state)
    lastEvent,        \* the last notification of another client's invocation
    sync_wait,        \* the sync wait taken alone: heights and outcome
    emitted,          \* per sent transaction: the result its invocation
                      \* notified when its block was persisted
    wait_poll,        \* the confirmation poll taken alone: sec_passed, the
                      \* queries made and what was returned
    \* ---- the contract taken alone
    storage           \* the contract's storage: key -> value, byte strings

vars == <<invoke_queue, pc, task, wallet, walletdb_loop, tx_in_progress,
          cached_offers, redis_tx, redis_offers, redis_result, walletHeight,
          balances, apc, areq, nextId, submitted, waitEnded, completed,
          anyFail, attempt, ahead, lastRead, onchain, c_inventory,
          redis_txfound, redis_inventory, enq, lastSearch, redis_owner,
          redis_balance, lastEvent, sync_wait, emitted, wait_poll, storage>>

\* the ledger, the contract storage and the status keys of the cache
ledgerVars == <<onchain, c_inventory, redis_txfound, redis_inventory, emitted>>
\* the history of the routes' calls and answers
routeVars == <<enq, lastSearch>>
\* the general keys of the cache, the last foreign notification and the
\* sync wait taken alone
queryVars == <<redis_owner, redis_balance, lastEvent, sync_wait>>
\* the confirmation poll and the contract, each taken alone
aloneVars == <<wait_poll, storage>>

NoTask == [id |-> 0, op |-> "none", key |-> 0, offer |-> NoOffer, args |-> <<>>]
NoReq == [ttype |-> "none", op |-> "none", offer |-> NoOffer]
NoAttempt == [id |-> 0, gasFalse |-> FALSE, writes |-> {}, sent |-> FALSE,
              timedOut |-> FALSE]
NoRead == [served |-> FALSE, offers |-> <<>>, reserved |-> {}]
NoCache == [set |-> FALSE, val |-> <<>>]
NoSearch == [key |-> 0, op |-> "none", tx_found |-> "unset",
             operation_complete |-> "unset"]
NoEvent == [name |-> "none", market |-> "none", flag |-> FALSE]
NoSync == [h |-> 0, H |-> ChainHeight, polled |-> FALSE, synced |-> FALSE]
NoPoll == [sec_passed |-> 0, queries |-> 0, slept |-> 0, at |-> "done",
           found |-> FALSE, returned |-> "none"]
NoStorage == <<>>

\* ------------------------------------------------------------- helpers
RECURSIVE SeqToSet(_)
SeqToSet(s) == IF s = <<>> THEN {} ELSE {Head(s)} \cup SeqToSet(Tail(s))


QueueIds == {invoke_queue[i].id : i \in 1..Len(invoke_queue)}

OfferLists == {<<>>, <<3>>, <<65>>, <<3, 65>>}

DropLast(s) == SubSeq(s, 1, Len(s) - 1)

\* ------------------------------------------------------------ the contract
\* the items the give_items route passes after the address
GiveArgs == <<1, 2, 3>>

\* an integer of the contract as the byte string a notification carries
\* (little endian, shortest form that keeps the sign bit clear)
ItemBytes(n) == IF n < 128 THEN <<n>> ELSE <<n % 256, n \div 256>>

\* give_items of the contract: the items are appended to the stored inventory
give_items(inventory, items) == inventory \o items

\* Main, get_inventory: the stored inventory goes into the notification
Main_get_inventory(inventory) ==
    [i \in 1..Len(inventory) |-> ItemBytes(inventory[i])]

\* Main, marketplace_owner: the notification carries the name
\* "marketplace_owner", the marketplace and its stored owner
Main_marketplace_owner(m) ==
    [name |-> "marketplace_owner", market |-> m, flag |-> TRUE]

\* the owner the contract stores for a marketplace
OwnerOf(m) == IF m = marketplace THEN "owner of LootClickerMarket"
                                 ELSE "owner of OtherMarket"

\* Main, balance_of: the notification carries the address and its balance;
\* it has no marketplace field
LootBalance == 300
Main_balance_of == [name |-> "balance_of", market |-> "none", flag |-> TRUE]

\* Main, the six item / offer operations: name, marketplace, result
Main_operation(op, m, flag) == [name |-> op, market |-> m, flag |-> flag]

\* ------------------------------------------------------ wallet open/close
\* Faulty variant: the wallet is opened but the ProcessBlocks loop is not started
open_wallet_NoLoop ==
    IF wallet
    THEN UNCHANGED <<wallet, walletdb_loop>>
    ELSE wallet' = TRUE /\ UNCHANGED walletdb_loop

\* open_wallet: no-op when a wallet is set, else open it and start the loop
open_wallet ==
    IF wallet
    THEN UNCHANGED <<wallet, walletdb_loop>>
    ELSE wallet' = TRUE /\ walletdb_loop' = TRUE

\* close_wallet: no-op when no wallet is set, else stop the loop and drop it
close_wallet ==
    IF ~wallet
    THEN UNCHANGED <<wallet, walletdb_loop>>
    ELSE wallet' = FALSE /\ walletdb_loop' = FALSE

\* Faulty variant: the percentage is rounded up
percent_synced_Ceil(h, H) == (100 * h + H - 1) \div H

\* percent_synced = int(100 * wallet._current_height / Blockchain.Default().Height)
percent_synced(h, H) == (100 * h) \div H

\* wallet_has_gas: some synced balance is NEOGas with amount > 0
wallet_has_gas == balances = "gas"

\* ------------------------------------------------------------ sc_notify
\* get_all_offers event: keep the offers whose decoded id is not in
\* cached_offers, and store them as 'offer' + decimal index.
sc_notify_get_all_offers(payload, reserved) ==
    SelectSeq(payload, LAMBDA i : ContractOfferId(i) \notin SeqToSet(reserved))

\* get_inventory event: every item of the payload is a byte string, decoded
\* with int.from_bytes(i, 'little')
RECURSIVE IntFromBytes(_)
IntFromBytes(b) == IF b = <<>> THEN 0 ELSE Head(b) + 256 * IntFromBytes(Tail(b))

sc_notify_get_inventory(payload) ==
    [i \in 1..Len(payload) |-> IntFromBytes(payload[i])]

\* the branch of sc_notify an event takes: the two general events are
\* handled first; every other event is dropped unless its marketplace is
\* the served one, and then handled by its name
sc_notify_branch(ev) ==
    IF ev.name = "balance_of" THEN "balance"
    ELSE IF ev.name = "get_marketplace_owner" THEN "owner"
    ELSE IF ev.market # marketplace THEN "dropped"
    ELSE ev.name

\* get_marketplace_owner event: redis_cache.set("owner:" + marketplace, address)
sc_notify_owner(cache, ev) ==
    IF sc_notify_branch(ev) = "owner"
    THEN [cache EXCEPT ![ev.market] = OwnerOf(ev.market)]
    ELSE cache

\* balance_of event: redis_cache.set("balance:" + address, int.from_bytes(..))
sc_notify_balance(cache, ev) ==
    IF sc_notify_branch(ev) = "balance"
    THEN [set |-> TRUE, val |-> IntFromBytes(ItemBytes(LootBalance))]
    ELSE cache

\* Faulty variant: give_items is missing from the list of operation events
sc_notify_operation_NoGive(cache, event_name, flag) ==
    IF event_name \in {"cancel_offer", "buy_offer", "put_offer", "remove_item"}
    THEN [cache EXCEPT ![event_name] = IF flag THEN "true" ELSE "false"]
    ELSE cache

\* operation events: redis_cache.set(event_name + address, operation_successful)
sc_notify_operation(cache, event_name, flag) ==
    IF event_name \in {"cancel_offer", "buy_offer", "put_offer", "give_items", "remove_item"}
    THEN [cache EXCEPT ![event_name] = IF flag THEN "true" ELSE "false"]
    ELSE cache

\* the argument list a route builds for an operation, each argument named
\* by its role: the offer routes pass [address, offer_id_s], the give_items
\* route the address followed by the item ids
RouteArgs(op) ==
    IF op \in OfferOps THEN <<"address", "offer_id_s">>
                       ELSE <<"address", "item 1", "item 2", "item 3">>

\* add_invoke: args.insert(0, self.marketplace)
args_insert(args) == <<marketplace>> \o args

\* ------------------------------------------------------------ the worker
\* the except branch of run: the attempt raised
Raise ==
    /\ pc' = "backoff"
    /\ anyFail' = TRUE

\* run: task = self.invoke_queue.get()
W_Get ==
    /\ UNCHANGED <<ledgerVars, routeVars, queryVars, aloneVars>>
    /\ pc = "get"
    /\ invoke_queue # <<>>
    /\ task' = Head(invoke_queue)
    /\ invoke_queue' = Tail(invoke_queue)
    /\ pc' = "open"
    /\ attempt' = [NoAttempt EXCEPT !.id = Head(invoke_queue).id]
    /\ ahead' = [i \in DOMAIN ahead |-> ahead[i] \ {Head(invoke_queue).id}]
    /\ UNCHANGED <<wallet, walletdb_loop, tx_in_progress, cached_offers, redis_tx,
                   redis_offers, redis_result, walletHeight, balances, apc, areq,
                   nextId, submitted, waitEnded, completed, anyFail, lastRead>>

\* invoke_operation: open_wallet, then the tx_in_progress guard
W_Open ==
    /\ UNCHANGED <<ledgerVars, routeVars, queryVars, aloneVars>>
    /\ pc = "open"
    /\ open_wallet
    /\ IF tx_in_progress # None
       THEN Raise
       ELSE pc' = "sync" /\ UNCHANGED anyFail
    /\ UNCHANGED <<invoke_queue, task, tx_in_progress, cached_offers, redis_tx,
                   redis_offers, redis_result, walletHeight, balances, apc, areq,
                   nextId, submitted, waitEnded, completed, attempt, ahead, lastRead>>

\* invoke_operation: one pass of the "wait until wallet is synced" loop
W_Sync ==
    /\ UNCHANGED <<ledgerVars, routeVars, queryVars, aloneVars>>
    /\ pc = "sync"
    /\ open_wallet
    /\ IF percent_synced(walletHeight, ChainHeight) > SyncPercent
       THEN pc' = "gas"
       ELSE pc' = "sync"
    /\ UNCHANGED <<invoke_queue, task, tx_in_progress, cached_offers, redis_tx,
                   redis_offers, redis_result, walletHeight, balances, apc, areq,
                   nextId, submitted, waitEnded, completed, anyFail, attempt, ahead,
                   lastRead>>

\* Faulty variant: the wallet is rebuilt but the attempt goes on to the dry run
W_Gas_NoRaise ==
    /\ UNCHANGED <<ledgerVars, routeVars, queryVars, aloneVars>>
    /\ pc = "gas"
    /\ open_wallet
    /\ pc' = "dryrun"
    /\ IF wallet_has_gas
       THEN UNCHANGED <<walletHeight, balances, attempt>>
       ELSE /\ walletHeight' = 0
            /\ balances' = "empty"
            /\ attempt' = [attempt EXCEPT !.gasFalse = TRUE]
    /\ UNCHANGED <<invoke_queue, task, tx_in_progress, cached_offers, redis_tx,
                   redis_offers, redis_result, apc, areq, nextId, submitted,
                   waitEnded, completed, anyFail, ahead, lastRead>>

\* invoke_operation: the gas check; without gas the wallet is rebuilt
W_Gas ==
    /\ UNCHANGED <<ledgerVars, routeVars, queryVars, aloneVars>>
    /\ pc = "gas"
    /\ open_wallet
    /\ IF wallet_has_gas
       THEN /\ pc' = "dryrun"
            /\ UNCHANGED <<walletHeight, balances, attempt>>
       ELSE /\ pc' = "rebuild"
            /\ walletHeight' = 0
            /\ balances' = "empty"
            /\ attempt' = [attempt EXCEPT !.gasFalse = TRUE]
    /\ UNCHANGED <<invoke_queue, task, tx_in_progress, cached_offers, redis_tx,
                   redis_offers, redis_result, apc, areq, nextId, submitted,
                   waitEnded, completed, anyFail, ahead, lastRead>>

\* invoke_operation: wait until the rebuild shows a balance, then raise
W_Rebuild ==
    /\ UNCHANGED <<ledgerVars, routeVars, queryVars, aloneVars>>
    /\ pc = "rebuild"
    /\ ~wallet \/ balances # "empty"
    /\ Raise
    /\ UNCHANGED <<invoke_queue, task, wallet, walletdb_loop, tx_in_progress,
                   cached_offers, redis_tx, redis_offers, redis_result, walletHeight,
                   balances, apc, areq, nextId, submitted, waitEnded, completed,
                   attempt, ahead, lastRead>>

\* invoke_operation: TestInvokeContract.  res is what the node answers:
\* "tx" (a transaction, events dispatched), "notx_notified" (the script ran
\* and notified, no transaction could be made), "notx_silent".
W_DryRun(res, flag) ==
    /\ UNCHANGED <<ledgerVars, routeVars, queryVars, aloneVars>>
    /\ pc = "dryrun"
    /\ LET r == IF wallet THEN res ELSE "notx_silent" IN
       /\ IF r = "notx_silent"
          THEN UNCHANGED <<redis_result, attempt>>
          ELSE /\ redis_result' = sc_notify_operation(redis_result, task.op, flag)
               /\ attempt' = [attempt EXCEPT !.writes = @ \cup {"result"}]
       /\ IF r = "tx"
          THEN pc' = "invoke" /\ UNCHANGED anyFail
          ELSE Raise
    /\ UNCHANGED <<invoke_queue, task, wallet, walletdb_loop, tx_in_progress,
                   cached_offers, redis_tx, redis_offers, walletHeight, balances,
                   apc, areq, nextId, submitted, waitEnded, completed, ahead,
                   lastRead>>

\* Faulty variant: InvokeContract is fired and forgotten: the attempt returns at
\* once, without the in-flight marker and without the confirmation wait
W_Invoke_NoWait(sent) ==
    /\ UNCHANGED <<ledgerVars, routeVars, queryVars, aloneVars>>
    /\ pc = "invoke"
    /\ IF sent /\ wallet
       THEN /\ redis_tx' = [redis_tx EXCEPT ![task.key] = Len(submitted) + 1]
            /\ submitted' = Append(submitted, [id |-> task.id, key |-> task.key])
            /\ attempt' = [attempt EXCEPT !.writes = @ \cup {"tx"}, !.sent = TRUE]
            /\ completed' = completed \cup {task.id}
            /\ pc' = "get"
            /\ UNCHANGED <<anyFail, tx_in_progress>>
       ELSE /\ Raise
            /\ UNCHANGED <<redis_tx, tx_in_progress, submitted, attempt, completed>>
    /\ UNCHANGED <<invoke_queue, task, wallet, walletdb_loop, cached_offers,
                   redis_offers, redis_result, walletHeight, balances, apc, areq,
                   nextId, waitEnded, ahead, lastRead>>

\* invoke_operation: InvokeContract; on success the tx id is cached under
\* the transaction key and tx_in_progress is set
W_Invoke(sent) ==
    /\ UNCHANGED <<ledgerVars, routeVars, queryVars, aloneVars>>
    /\ pc = "invoke"
    /\ IF sent /\ wallet
       THEN /\ redis_tx' = [redis_tx EXCEPT ![task.key] = Len(submitted) + 1]
            /\ tx_in_progress' = Len(submitted) + 1
            /\ submitted' = Append(submitted, [id |-> task.id, key |-> task.key])
            /\ attempt' = [attempt EXCEPT !.writes = @ \cup {"tx"}, !.sent = TRUE]
            /\ pc' = "wait"
            /\ UNCHANGED anyFail
       ELSE /\ Raise
            /\ UNCHANGED <<redis_tx, tx_in_progress, submitted, attempt>>
    /\ UNCHANGED <<invoke_queue, task, wallet, walletdb_loop, cached_offers,
                   redis_offers, redis_result, walletHeight, balances, apc, areq,
                   nextId, waitEnded, completed, ahead, lastRead>>

\* _wait_for_tx returns: found when Blockchain.GetTransaction shows the
\* transaction in a block, or not found within max_seconds
W_WaitForTx(found) ==
    /\ UNCHANGED <<ledgerVars, routeVars, queryVars, aloneVars>>
    /\ pc = "wait"
    /\ found = (tx_in_progress \in onchain)
    /\ waitEnded' = waitEnded + 1
    /\ attempt' = [attempt EXCEPT !.timedOut = ~found]
    /\ pc' = "finish"
    /\ UNCHANGED <<invoke_queue, task, wallet, walletdb_loop, tx_in_progress,
                   cached_offers, redis_tx, redis_offers, redis_result, walletHeight,
                   balances, apc, areq, nextId, submitted, completed, anyFail, ahead,
                   lastRead>>

\* Faulty variant: the worker itself marks the operation as completed in the
\* cache when the invoke is over
W_Finish_MarkDone ==
    /\ UNCHANGED <<ledgerVars, routeVars, queryVars, aloneVars>>
    /\ pc = "finish"
    /\ IF task.op \in OfferOps /\ cached_offers = <<>>
       THEN /\ Raise
            /\ UNCHANGED <<task, wallet, walletdb_loop, tx_in_progress, cached_offers,
                           completed, attempt, redis_result>>
       ELSE /\ cached_offers' = IF task.op \in OfferOps
                                THEN DropLast(cached_offers)
                                ELSE cached_offers
            /\ close_wallet
            /\ tx_in_progress' = None
            /\ completed' = completed \cup {task.id}
            /\ task' = NoTask
            /\ attempt' = NoAttempt
            /\ pc' = "get"
            /\ redis_result' = [redis_result EXCEPT ![task.op] = "true"]
            /\ UNCHANGED anyFail
    /\ UNCHANGED <<invoke_queue, redis_tx, redis_offers, walletHeight,
                   balances, apc, areq, nextId, submitted, waitEnded, ahead, lastRead>>

\* invoke_operation: remove the last cached offer (buy/cancel), close the
\* wallet, free tx_in_progress.  del on an empty list raises IndexError.
W_Finish ==
    /\ UNCHANGED <<ledgerVars, routeVars, queryVars, aloneVars>>
    /\ pc = "finish"
    /\ IF task.op \in OfferOps /\ cached_offers = <<>>
       THEN /\ Raise
            /\ UNCHANGED <<task, wallet, walletdb_loop, tx_in_progress, cached_offers,
                           completed, attempt>>
       ELSE /\ cached_offers' = IF task.op \in OfferOps
                                THEN DropLast(cached_offers)
                                ELSE cached_offers
            /\ close_wallet
            /\ tx_in_progress' = None
            /\ completed' = completed \cup {task.id}
            /\ task' = NoTask
            /\ attempt' = NoAttempt
            /\ pc' = "get"
            /\ UNCHANGED anyFail
    /\ UNCHANGED <<invoke_queue, redis_tx, redis_offers, redis_result, walletHeight,
                   balances, apc, areq, nextId, submitted, waitEnded, ahead, lastRead>>

\* what is remembered of a failed attempt once it is over: whose it was and
\* whether it failed on the gas check
AttemptOver ==
    IF attempt.gasFalse
    THEN [NoAttempt EXCEPT !.id = attempt.id, !.gasFalse = TRUE]
    ELSE NoAttempt

\* Faulty variant: the failed task is put back at the head of the queue
W_Requeue_Head ==
    /\ UNCHANGED <<ledgerVars, routeVars, queryVars, aloneVars>>
    /\ pc = "backoff"
    /\ invoke_queue' = <<task>> \o invoke_queue
    /\ ahead' = [ahead EXCEPT ![task.id] = QueueIds]
    /\ task' = NoTask
    /\ attempt' = AttemptOver
    /\ pc' = "get"
    /\ UNCHANGED <<wallet, walletdb_loop, tx_in_progress, cached_offers, redis_tx,
                   redis_offers, redis_result, walletHeight, balances, apc, areq,
                   nextId, submitted, waitEnded, completed, anyFail, lastRead>>

\* Faulty variant: the failed task is put back through add_invoke, which
\* inserts the marketplace once more
W_Requeue_AddInvoke ==
    /\ UNCHANGED <<ledgerVars, routeVars, queryVars, aloneVars>>
    /\ pc = "backoff"
    /\ invoke_queue' = Append(invoke_queue,
                              [task EXCEPT !.args = args_insert(@)])
    /\ ahead' = [ahead EXCEPT ![task.id] = QueueIds]
    /\ task' = NoTask
    /\ attempt' = AttemptOver
    /\ pc' = "get"
    /\ UNCHANGED <<wallet, walletdb_loop, tx_in_progress, cached_offers, redis_tx,
                   redis_offers, redis_result, walletHeight, balances, apc, areq,
                   nextId, submitted, waitEnded, completed, anyFail, lastRead>>

\* Faulty variant: the failed task is logged and dropped
W_Requeue_Drop ==
    /\ UNCHANGED <<ledgerVars, routeVars, queryVars, aloneVars>>
    /\ pc = "backoff"
    /\ task' = NoTask
    /\ attempt' = AttemptOver
    /\ pc' = "get"
    /\ UNCHANGED <<invoke_queue, ahead, wallet, walletdb_loop, tx_in_progress,
                   cached_offers, redis_tx, redis_offers, redis_result, walletHeight,
                   balances, apc, areq, nextId, submitted, waitEnded, completed,
                   anyFail, lastRead>>

\* run, except branch: after the 10 s sleep the task is put back
W_Requeue ==
    /\ UNCHANGED <<ledgerVars, routeVars, queryVars, aloneVars>>
    /\ pc = "backoff"
    /\ invoke_queue' = Append(invoke_queue, task)
    /\ ahead' = [ahead EXCEPT ![task.id] = QueueIds]
    /\ task' = NoTask
    /\ attempt' = AttemptOver
    /\ pc' = "get"
    /\ UNCHANGED <<wallet, walletdb_loop, tx_in_progress, cached_offers, redis_tx,
                   redis_offers, redis_result, walletHeight, balances, apc, areq,
                   nextId, submitted, waitEnded, completed, anyFail, lastRead>>

\* ----------------------------------------------------- the reactor thread
\* add_invoke: the task tuple is put at the tail of the queue.  The routes
\* buy_offer / cancel_offer pass the offer id as ApiOfferId; the caller
\* chooses the transaction key.
\* Faulty variant: the task is put at the head of the queue
add_invoke_head(op, key, n) ==
    <<[id |-> nextId + 1, op |-> op, key |-> key,
       offer |-> IF op \in OfferOps THEN ApiOfferId(n) ELSE NoOffer,
       args |-> args_insert(RouteArgs(op))]>>
    \o invoke_queue

add_invoke(op, key, n) ==
    Append(invoke_queue,
           [id |-> nextId + 1, op |-> op, key |-> key,
            offer |-> IF op \in OfferOps THEN ApiOfferId(n) ELSE NoOffer,
            args |-> args_insert(RouteArgs(op))])

A_AddInvoke(op, key, n) ==
    /\ apc = "idle"
    /\ nextId < MaxOps
    /\ op \in OfferOps \/ n = 3
    /\ invoke_queue' = add_invoke(op, key, n)
    /\ nextId' = nextId + 1
    /\ enq' = Append(enq, [op |-> op, idx |-> IF op \in OfferOps THEN n ELSE 0,
                           key |-> key, args |-> RouteArgs(op)])
    /\ UNCHANGED <<ledgerVars, lastSearch, queryVars, aloneVars>>
    /\ UNCHANGED <<pc, task, wallet, walletdb_loop, tx_in_progress, cached_offers,
                   redis_tx, redis_offers, redis_result, walletHeight, balances, apc,
                   areq, submitted, waitEnded, completed, anyFail, attempt, ahead,
                   lastRead>>

\* test_invoke, first part: the wallet is opened when none is set and the
\* argument list is built.  Requests: get_all_offers as the get_offers route
\* sends it ("market"), and buy_offer / cancel_offer dry-runs with
\* transaction type "offer" or "market".
ReadRequests ==
    {[ttype |-> "market", op |-> "get_all_offers", offer |-> NoOffer]}

InventoryRequests ==
    {[ttype |-> "market", op |-> "get_inventory", offer |-> NoOffer]}

\* the marketplace_owner and loot_balance routes
GeneralRequests ==
    {[ttype |-> "general", op |-> o, offer |-> NoOffer] :
        o \in {"marketplace_owner", "balance_of"}}

ReserveRequests ==
    {[ttype |-> t, op |-> o, offer |-> ApiOfferId(n)] :
        t \in {"offer", "market"}, o \in OfferOps \cap WriteOps, n \in OfferIdx}

\* cap: the length up to which cached_offers is explored
test_invoke_begin(req, cap) ==
    /\ UNCHANGED <<ledgerVars, routeVars, queryVars, aloneVars>>
    /\ apc = "idle"
    /\ req.op \in OfferOps => Len(cached_offers) < cap
    /\ open_wallet
    /\ areq' = req
    /\ apc' = "test"
    /\ UNCHANGED <<invoke_queue, pc, task, tx_in_progress, cached_offers, redis_tx,
                   redis_offers, redis_result, walletHeight, balances, nextId,
                   submitted, waitEnded, completed, anyFail, attempt, ahead, lastRead>>

A_TestInvokeBegin(req) == test_invoke_begin(req, MaxReserve)

\* the same with room for one more reservation
A_TestInvokeBeginAgain(req) == test_invoke_begin(req, MaxReserve + 1)

\* get_offers route, after test_invoke returned: the cached list is read
\* and returned (no answer when the key was never set)
get_offers(cache, reserved) ==
    IF cache.set
    THEN [served |-> TRUE, offers |-> cache.val,
          reserved |-> {o.idx : o \in SeqToSet(reserved)}]
    ELSE NoRead

\* Faulty variant: a buy_offer / cancel_offer dry run reserves the offer
\* whether or not a transaction came back
A_TestInvokeEnd_Always(res, payload, flag) ==
    /\ apc = "test"
    /\ LET r == IF wallet THEN res ELSE "raise"
           notified == r \in {"tx", "notx_notified"}
           offers1 == IF notified /\ areq.op = "get_all_offers"
                      THEN [set |-> TRUE,
                            val |-> sc_notify_get_all_offers(payload, cached_offers)]
                      ELSE redis_offers
       IN
       /\ redis_offers' = offers1
       /\ redis_result' = IF notified
                          THEN sc_notify_operation(redis_result, areq.op, flag)
                          ELSE redis_result
       /\ IF r = "tx" \/ r = "raise" THEN UNCHANGED <<wallet, walletdb_loop>>
                                     ELSE close_wallet
       /\ cached_offers' = IF r # "raise" /\ areq.op \in OfferOps
                           THEN Append(cached_offers, areq.offer)
                           ELSE cached_offers
       /\ lastRead' = IF areq.op = "get_all_offers" /\ r # "raise"
                      THEN get_offers(offers1, cached_offers)
                      ELSE lastRead
       /\ redis_inventory' =
             IF notified /\ areq.op = "get_inventory"
             THEN [set |-> TRUE,
                   val |-> sc_notify_get_inventory(Main_get_inventory(c_inventory))]
             ELSE redis_inventory
       /\ redis_owner' =
             IF notified /\ areq.op = "marketplace_owner"
             THEN sc_notify_owner(redis_owner, Main_marketplace_owner(marketplace))
             ELSE redis_owner
       /\ redis_balance' =
             IF notified /\ areq.op = "balance_of"
             THEN sc_notify_balance(redis_balance, Main_balance_of)
             ELSE redis_balance
    /\ UNCHANGED <<onchain, c_inventory, redis_txfound, emitted, routeVars,
                   lastEvent, sync_wait, aloneVars>>
    /\ areq.op = "get_all_offers" \/ payload = <<>>
    /\ areq.op # "get_all_offers" \/ flag
    /\ apc' = "idle"
    /\ areq' = NoReq
    /\ UNCHANGED <<invoke_queue, pc, task, tx_in_progress, redis_tx, walletHeight,
                   balances, nextId, submitted, waitEnded, completed, anyFail,
                   attempt, ahead>>

\* test_invoke, second part: TestInvokeContract and what follows it.
\* A get_inventory dry run reads the stored inventory of the contract.
\* sc_notify runs inside the call.  Without a tx the wallet is closed.  With a
\* tx a buy/cancel appends marketplace + offer_id to cached_offers; offer_id
\* is bound only for transaction type "offer".
A_TestInvokeEnd(res, payload, flag) ==
    /\ apc = "test"
    /\ LET r == IF wallet THEN res ELSE "raise"
           notified == r \in {"tx", "notx_notified"}
           offers1 == IF notified /\ areq.op = "get_all_offers"
                      THEN [set |-> TRUE,
                            val |-> sc_notify_get_all_offers(payload, cached_offers)]
                      ELSE redis_offers
       IN
       /\ redis_offers' = offers1
       /\ redis_result' = IF notified
                          THEN sc_notify_operation(redis_result, areq.op, flag)
                          ELSE redis_result
       /\ IF r = "tx" \/ r = "raise" THEN UNCHANGED <<wallet, walletdb_loop>>
                                     ELSE close_wallet
       /\ cached_offers' = IF r = "tx" /\ areq.op \in OfferOps /\ areq.ttype = "offer"
                           THEN Append(cached_offers, areq.offer)
                           ELSE cached_offers
       /\ lastRead' = IF areq.op = "get_all_offers" /\ r # "raise"
                      THEN get_offers(offers1, cached_offers)
                      ELSE lastRead
       /\ redis_inventory' =
             IF notified /\ areq.op = "get_inventory"
             THEN [set |-> TRUE,
                   val |-> sc_notify_get_inventory(Main_get_inventory(c_inventory))]
             ELSE redis_inventory
       /\ redis_owner' =
             IF notified /\ areq.op = "marketplace_owner"
             THEN sc_notify_owner(redis_owner, Main_marketplace_owner(marketplace))
             ELSE redis_owner
       /\ redis_balance' =
             IF notified /\ areq.op = "balance_of"
             THEN sc_notify_balance(redis_balance, Main_balance_of)
             ELSE redis_balance
    /\ UNCHANGED <<onchain, c_inventory, redis_txfound, emitted, routeVars,
                   lastEvent, sync_wait, aloneVars>>
    /\ areq.op = "get_all_offers" \/ payload = <<>>
    /\ areq.op # "get_all_offers" \/ flag
    /\ apc' = "idle"
    /\ areq' = NoReq
    /\ UNCHANGED <<invoke_queue, pc, task, tx_in_progress, redis_tx, walletHeight,
                   balances, nextId, submitted, waitEnded, completed, anyFail,
                   attempt, ahead>>

\* claim_gas, first part: open the wallet when none is set
A_ClaimGasBegin ==
    /\ UNCHANGED <<ledgerVars, routeVars, queryVars, aloneVars>>
    /\ apc = "idle"
    /\ open_wallet
    /\ apc' = "claim"
    /\ UNCHANGED <<invoke_queue, pc, task, tx_in_progress, cached_offers, redis_tx,
                   redis_offers, redis_result, walletHeight, balances, areq, nextId,
                   submitted, waitEnded, completed, anyFail, attempt, ahead, lastRead>>

\* claim_gas, second part: ClaimGas(self.wallet); close_wallet
A_ClaimGasEnd ==
    /\ UNCHANGED <<ledgerVars, routeVars, queryVars, aloneVars>>
    /\ apc = "claim"
    /\ close_wallet
    /\ apc' = "idle"
    /\ UNCHANGED <<invoke_queue, pc, task, tx_in_progress, cached_offers, redis_tx,
                   redis_offers, redis_result, walletHeight, balances, areq, nextId,
                   submitted, waitEnded, completed, anyFail, attempt, ahead, lastRead>>

\* ------------------------------------------------------- the environment
\* wallet.ProcessBlocks, called every second while the loop runs: the wallet
\* catches up; at full height its synced balances are b
E_ProcessBlocks(b) ==
    /\ UNCHANGED <<ledgerVars, routeVars, queryVars, aloneVars>>
    /\ walletdb_loop
    /\ walletHeight' = IF walletHeight < ChainHeight THEN walletHeight + 1
                       ELSE walletHeight
    /\ balances' = IF walletHeight' = ChainHeight THEN b ELSE balances
    /\ UNCHANGED <<invoke_queue, pc, task, wallet, walletdb_loop, tx_in_progress,
                   cached_offers, redis_tx, redis_offers, redis_result, apc, areq,
                   nextId, submitted, waitEnded, completed, anyFail, attempt, ahead,
                   lastRead>>

\* A block with the sent transaction tx is persisted: the contract runs the
\* operation (flag: the result the operation returns, the marketplace
\* permission check included), its notification reaches sc_notify, and
\* Blockchain.GetTransaction finds the transaction from now on.
E_Persist(tx, flag) ==
    /\ tx \in 1..Len(submitted)
    /\ tx \notin onchain
    /\ onchain' = onchain \cup {tx}
    /\ LET op == enq[submitted[tx].id].op IN
       /\ redis_result' = sc_notify_operation(redis_result, op, flag)
       /\ c_inventory' = IF op = "give_items" /\ flag
                         THEN give_items(c_inventory, GiveArgs)
                         ELSE c_inventory
    /\ emitted' = [emitted EXCEPT ![tx] = IF flag THEN "true" ELSE "false"]
    /\ UNCHANGED <<invoke_queue, pc, task, wallet, walletdb_loop, tx_in_progress,
                   cached_offers, redis_tx, redis_offers, walletHeight, balances,
                   apc, areq, nextId, submitted, waitEnded, completed, anyFail,
                   attempt, ahead, lastRead, redis_txfound, redis_inventory,
                   routeVars, queryVars, aloneVars>>

\* search_tx: nothing is done without a cached tx id; else the ledger is
\* asked and "tx" + key is set to True / False
search_tx(key) ==
    IF redis_tx[key] = None
    THEN redis_txfound
    ELSE [redis_txfound EXCEPT
             ![key] = IF redis_tx[key] \in onchain THEN "True" ELSE "False"]

\* Faulty variant: operation_complete is read whatever tx_found is
search_transaction_NoGate(txfound, key, op) ==
    [key |-> key, op |-> op,
     tx_found |-> txfound[key],
     operation_complete |-> redis_result[op]]

\* search_transaction route, after search_tx: tx_found is "tx" + key as
\* cached; operation_complete is read from operation + address only when
\* tx_found is "True"
search_transaction(txfound, key, op) ==
    [key |-> key, op |-> op,
     tx_found |-> txfound[key],
     operation_complete |-> IF txfound[key] = "True" THEN redis_result[op]
                            ELSE "unset"]

A_Search(key, op) ==
    /\ apc = "idle"
    /\ redis_txfound' = search_tx(key)
    /\ lastSearch' = search_transaction(search_tx(key), key, op)
    /\ UNCHANGED <<invoke_queue, pc, task, wallet, walletdb_loop, tx_in_progress,
                   cached_offers, redis_tx, redis_offers, redis_result, walletHeight,
                   balances, apc, areq, nextId, submitted, waitEnded, completed,
                   anyFail, attempt, ahead, lastRead, onchain, c_inventory,
                   redis_inventory, emitted, enq, queryVars, aloneVars>>

\* get_inventory route, after test_invoke returned: str() of whatever the
\* cache holds under "inventory:" + address is answered, None included
get_inventory_route(cache) == [error |-> FALSE, body |-> cache]

\* loot_balance route, after test_invoke returned: the cached balance is
\* decoded; with nothing cached the decode raises and catch_exceptions
\* answers an error
loot_balance_route(cache) ==
    IF cache.set THEN [error |-> FALSE, body |-> cache]
                 ELSE [error |-> TRUE, body |-> NoCache]

\* The notifications of the contract that a persisted block brings when
\* another client invoked it: an item / offer operation on some marketplace,
\* a marketplace_owner query, a balance_of query.
ContractEvents ==
    {Main_operation(op, m, flag) : op \in ResultOps, m \in Markets, flag \in BOOLEAN}
    \cup {Main_marketplace_owner(m) : m \in Markets}
    \cup {Main_balance_of}

\* sc_notify on such a notification
E_Notify(ev) ==
    /\ lastEvent' = ev
    /\ redis_result' = IF sc_notify_branch(ev) = ev.name
                       THEN sc_notify_operation(redis_result, ev.name, ev.flag)
                       ELSE redis_result
    /\ redis_owner' = sc_notify_owner(redis_owner, ev)
    /\ redis_balance' = sc_notify_balance(redis_balance, ev)
    /\ UNCHANGED <<invoke_queue, pc, task, wallet, walletdb_loop, tx_in_progress,
                   cached_offers, redis_tx, redis_offers, walletHeight, balances,
                   apc, areq, nextId, submitted, waitEnded, completed, anyFail,
                   attempt, ahead, lastRead, ledgerVars, routeVars, sync_wait,
                   aloneVars>>

\* ------------------------------------------------- the sync wait alone
\* one pass of the "wait until wallet is synced" loop for the heights of
\* sync_wait: the loop ends when percent_synced > 99
SyncWait ==
    /\ ~sync_wait.polled
    /\ sync_wait' = [sync_wait EXCEPT
                        !.polled = TRUE,
                        !.synced = percent_synced(sync_wait.h, sync_wait.H)
                                      > SyncPercent]
    /\ UNCHANGED <<invoke_queue, pc, task, wallet, walletdb_loop, tx_in_progress,
                   cached_offers, redis_tx, redis_offers, redis_result,
                   walletHeight, balances, apc, areq, nextId, submitted,
                   waitEnded, completed, anyFail, attempt, ahead, lastRead,
                   ledgerVars, routeVars, redis_owner, redis_balance, lastEvent,
                   aloneVars>>

\* the wallet takes in one more block while the loop sleeps
SyncBlock ==
    /\ sync_wait.polled
    /\ ~sync_wait.synced
    /\ sync_wait.h < MaxHeight
    /\ sync_wait' = [sync_wait EXCEPT !.h = @ + 1, !.polled = FALSE]
    /\ UNCHANGED <<invoke_queue, pc, task, wallet, walletdb_loop, tx_in_progress,
                   cached_offers, redis_tx, redis_offers, redis_result,
                   walletHeight, balances, apc, areq, nextId, submitted,
                   waitEnded, completed, anyFail, attempt, ahead, lastRead,
                   ledgerVars, routeVars, redis_owner, redis_balance, lastEvent,
                   aloneVars>>

\* ------------------------------------------ the confirmation poll alone
\* Faulty variant: the loop goes on while sec_passed <= max_seconds
wait_for_tx_loop_Le(sec_passed) == sec_passed <= max_seconds

\* _wait_for_tx: while sec_passed < max_seconds
wait_for_tx_loop(sec_passed) == sec_passed < max_seconds

\* _wait_for_tx, the loop body up to the sleep: GetTransaction is asked;
\* in_block says whether it reports a height > -1, and then True is returned
WaitQuery(in_block) ==
    /\ wait_poll.at = "loop"
    /\ wait_for_tx_loop(wait_poll.sec_passed)
    /\ wait_poll' = [wait_poll EXCEPT
                        !.queries = @ + 1,
                        !.found = in_block,
                        !.at = IF in_block THEN "done" ELSE "sleep",
                        !.returned = IF in_block THEN "True" ELSE @]
    /\ UNCHANGED <<invoke_queue, pc, task, wallet, walletdb_loop, tx_in_progress,
                   cached_offers, redis_tx, redis_offers, redis_result,
                   walletHeight, balances, apc, areq, nextId, submitted,
                   waitEnded, completed, anyFail, attempt, ahead, lastRead,
                   ledgerVars, routeVars, queryVars, storage>>

\* _wait_for_tx: time.sleep(5); sec_passed += 5
WaitSleep ==
    /\ wait_poll.at = "sleep"
    /\ wait_poll' = [wait_poll EXCEPT
                        !.slept = @ + PollSleep,
                        !.sec_passed = @ + PollSleep,
                        !.at = "loop"]
    /\ UNCHANGED <<invoke_queue, pc, task, wallet, walletdb_loop, tx_in_progress,
                   cached_offers, redis_tx, redis_offers, redis_result,
                   walletHeight, balances, apc, areq, nextId, submitted,
                   waitEnded, completed, anyFail, attempt, ahead, lastRead,
                   ledgerVars, routeVars, queryVars, storage>>

\* _wait_for_tx: the loop is left, the error is logged, False is returned
WaitGiveUp ==
    /\ wait_poll.at = "loop"
    /\ ~wait_for_tx_loop(wait_poll.sec_passed)
    /\ wait_poll' = [wait_poll EXCEPT !.at = "done", !.returned = "False"]
    /\ UNCHANGED <<invoke_queue, pc, task, wallet, walletdb_loop, tx_in_progress,
                   cached_offers, redis_tx, redis_offers, redis_result,
                   walletHeight, balances, apc, areq, nextId, submitted,
                   waitEnded, completed, anyFail, attempt, ahead, lastRead,
                   ledgerVars, routeVars, queryVars, storage>>

\* ------------------------------------------------- the contract alone
\* LootMarket.py taken alone: its storage is a map from byte strings to
\* byte strings, a byte string is a sequence of numbers 0..255, and every
\* value of the contract (a name, an address, an integer) is a byte string.

\* the storage keys (lines 41-45) and the word "offer" of put_offer
inventory_key == <<73, 110, 118, 101, 110, 116, 111, 114, 121>>
marketplace_key == <<109, 97, 114, 107, 101, 116, 112, 108, 97, 99, 101>>
offers_key == <<79, 102, 102, 101, 114, 115>>
current_offer_index_key ==
    <<99, 117, 114, 114, 101, 110, 116, 95, 111, 102, 102, 101, 114, 95, 105,
      110, 100, 101, 120>>
OfferWord == <<111, 102, 102, 101, 114>>
contract_owner ==
    <<178, 151, 237, 140, 11, 45, 36, 77, 63, 222, 200, 106, 209, 32, 215, 141,
      239, 163, 156, 223>>

\* the marketplace of the deployment, "LootClickerMarket", its registered
\* owner, and a name that is not registered, "OtherMarket"
MarketName ==
    <<76, 111, 111, 116, 67, 108, 105, 99, 107, 101, 114, 77, 97, 114, 107, 101,
      116>>
OtherName == <<79, 116, 104, 101, 114, 77, 97, 114, 107, 101, 116>>
ContractMarkets == {MarketName, OtherName}
MarketOwner == <<77, 79>>
\* who signed the invocation
Signers == {MarketOwner, contract_owner}

\* the addresses "A" and "B" of two players; the item ids 5 and 65; the
\* integer 65 and the one-letter string "A" are the same byte string
Addresses == {<<65>>, <<66>>}
ItemIds == {<<5>>, <<65>>}
\* the LOOT the players hold, all of it with "A" at the start
Circulation == 2

\* a byte string as the integer the VM takes it for (little endian, signed)
RECURSIVE Pow256(_)
Pow256(k) == IF k = 0 THEN 1 ELSE 256 * Pow256(k - 1)

BigInteger(b) ==
    IF b = <<>> THEN 0
    ELSE IF b[Len(b)] >= 128 THEN IntFromBytes(b) - Pow256(Len(b))
    ELSE IntFromBytes(b)

\* an integer as the byte string the VM stores
ToByteArray(n) ==
    IF n >= 0 THEN ItemBytes(n)
    ELSE IF n >= -128 THEN <<256 + n>>
    ELSE <<(65536 + n) % 256, (65536 + n) \div 256>>

\* substr(data, start, n) and data[offset:]
substr(data, start, n) ==
    SubSeq(data, start + 1, IF start + n < Len(data) THEN start + n ELSE Len(data))

SliceFrom(data, offset) == SubSeq(data, offset + 1, Len(data))

\* Get, Put, Delete of the storage context
Get(st, key) == IF key \in DOMAIN st THEN st[key] ELSE <<>>
Put(st, key, value) ==
    [k \in DOMAIN st \cup {key} |-> IF k = key THEN value ELSE st[k]]
Delete(st, key) == [k \in DOMAIN st \ {key} |-> st[k]]

\* CheckWitness: the invocation is signed by the given script hash; no
\* signature matches the empty hash of an unregistered marketplace
CheckWitness(signer, hash) == hash # <<>> /\ signer = hash

\* serialize_var_length_item
serialize_var_length_item(item) ==
    LET stuff_len == Len(item)
        byte_len == IF stuff_len <= 255 THEN <<1>>
                    ELSE IF stuff_len <= 65535 THEN <<2>>
                    ELSE <<4>>
    IN byte_len \o ToByteArray(stuff_len)

\* serialize_array: the length of the list, then every item after its length
RECURSIVE serialize_items(_)
serialize_items(items) ==
    IF items = <<>> THEN <<>>
    ELSE serialize_var_length_item(Head(items)) \o Head(items)
         \o serialize_items(Tail(items))

serialize_array(items) ==
    serialize_var_length_item(items) \o serialize_items(items)

\* deserialize_bytearray: the loop over the items
RECURSIVE deserialize_items(_, _)
deserialize_items(newdata, n) ==
    IF n <= 0 THEN <<>>
    ELSE LET itemlen_len == BigInteger(substr(newdata, 0, 1))
             item_len == BigInteger(substr(newdata, 1, itemlen_len))
             start == 1 + itemlen_len
             end == start + item_len
         IN <<substr(newdata, start, item_len)>>
            \o deserialize_items(SliceFrom(newdata, end), n - 1)

deserialize_bytearray(data) ==
    LET collection_length_length == BigInteger(substr(data, 0, 1))
        collection_len == BigInteger(substr(data, 1, collection_length_length))
        offset == 1 + collection_length_length
    IN deserialize_items(SliceFrom(data, offset), collection_len)

\* the place of the first element equal to x, 0 when there is none
RECURSIVE IndexOf(_, _, _)
IndexOf(list, x, i) ==
    IF i > Len(list) THEN 0
    ELSE IF list[i] = x THEN i
    ELSE IndexOf(list, x, i + 1)

\* list.remove(current_index) of the contract's compiler: the element at
\* that place is removed
RemoveAt(list, i) == SubSeq(list, 1, i - 1) \o SubSeq(list, i + 1, Len(list))

\* what a function of the contract leaves: the storage and its return value
Ret(st, ret) == [st |-> st, ret |-> ret]

marketplace_owner(st, m) == Get(st, marketplace_key \o m)

get_inventory(st, m, address) == Get(st, (inventory_key \o m) \o address)

save_inventory(st, m, address, inventory) ==
    LET storage_key == (inventory_key \o m) \o address
    IN Put(Delete(st, storage_key), storage_key, inventory)

\* Faulty variant: the items are given without the permission check
contract_give_items_NoWitness(st, signer, args) ==
    LET m == args[1]
        address == args[2]
        inventory_s == get_inventory(st, m, address)
        inventory == IF inventory_s = <<>> THEN <<>>
                     ELSE deserialize_bytearray(inventory_s)
        given == SelectSeq(args, LAMBDA item : item # m /\ item # address)
    IN Ret(save_inventory(st, m, address, serialize_array(inventory \o given)),
           TRUE)

\* give_items of the contract: every element of args that differs from the
\* marketplace and from the address is appended to the stored inventory
contract_give_items(st, signer, args) ==
    LET m == args[1]
        address == args[2]
        inventory_s == get_inventory(st, m, address)
        inventory == IF inventory_s = <<>> THEN <<>>
                     ELSE deserialize_bytearray(inventory_s)
        given == SelectSeq(args, LAMBDA item : item # m /\ item # address)
    IN IF ~CheckWitness(signer, marketplace_owner(st, m))
       THEN Ret(st, FALSE)
       ELSE Ret(save_inventory(st, m, address,
                               serialize_array(inventory \o given)), TRUE)

remove_item(st, signer, m, address, item_id) ==
    LET inventory == deserialize_bytearray(get_inventory(st, m, address))
        current_index == IndexOf(inventory, item_id, 1)
    IN IF ~CheckWitness(signer, marketplace_owner(st, m))
       THEN Ret(st, FALSE)
       ELSE IF current_index = 0
       THEN Ret(st, FALSE)
       ELSE Ret(save_inventory(st, m, address,
                               serialize_array(RemoveAt(inventory, current_index))),
                TRUE)

transfer_item(st, signer, m, address_from, address_to, item_id) ==
    LET removed == remove_item(st, signer, m, address_from, item_id)
    IN IF ~CheckWitness(signer, marketplace_owner(st, m))
       THEN Ret(st, FALSE)
       ELSE IF address_from = address_to
       THEN Ret(st, TRUE)
       ELSE IF removed.ret
       THEN Ret(contract_give_items(removed.st, signer,
                                    <<m, address_to, item_id>>).st, TRUE)
       ELSE Ret(st, FALSE)

get_all_offers(st, m) == Get(st, offers_key \o m)

get_offer(st, m, offer_id) == Get(st, m \o offer_id)

new_offer(address_owner, offer_id, item_id, price) ==
    serialize_array(<<address_owner, offer_id, item_id, price>>)

\* put_offer: the item leaves the inventory, the offer id is made from the
\* marketplace's offer index, the id joins the list of offers, the offer is
\* stored under its id, the index is incremented
put_offer(st, signer, m, address, item_id, price) ==
    LET removed == remove_item(st, signer, m, address, item_id)
        s1 == removed.st
        marketplace_index_key == current_offer_index_key \o m
        marketplace_offers_key == offers_key \o m
        index == Get(s1, marketplace_index_key)
        index_n == IF BigInteger(index) = 0 THEN 1 ELSE BigInteger(index)
        marketplace_offer_id ==
            IF BigInteger(index) = 0 THEN m \o (OfferWord \o <<1>>)
                                     ELSE m \o (OfferWord \o index)
        all_offers_s == get_all_offers(s1, m)
        all_offers == IF all_offers_s = <<>>
                      THEN <<marketplace_offer_id>>
                      ELSE Append(deserialize_bytearray(all_offers_s),
                                  marketplace_offer_id)
        offer == new_offer(address, marketplace_offer_id, item_id, price)
        s2 == Put(Delete(s1, marketplace_offers_key), marketplace_offers_key,
                  serialize_array(all_offers))
        s3 == Put(s2, marketplace_offer_id, offer)
        s4 == Put(Delete(s3, marketplace_index_key), marketplace_index_key,
                  ToByteArray(index_n + 1))
    IN IF BigInteger(price) <= 0
       THEN Ret(st, FALSE)
       ELSE IF ~CheckWitness(signer, marketplace_owner(st, m))
       THEN Ret(st, FALSE)
       ELSE IF removed.ret
       THEN Ret(s4, TRUE)
       ELSE Ret(st, FALSE)

remove_offer(st, m, offer_id) ==
    LET marketplace_offers_key == offers_key \o m
        offers == deserialize_bytearray(get_all_offers(st, m))
        current_index == IndexOf(offers, offer_id, 1)
        s1 == Put(Delete(st, marketplace_offers_key), marketplace_offers_key,
                  serialize_array(RemoveAt(offers, current_index)))
    IN IF current_index = 0
       THEN Ret(st, FALSE)
       ELSE Ret(Delete(s1, offer_id), TRUE)

balance_of(st, address) == Get(st, address)

\* Faulty variant: the balance of the sender is not compared with the amount
transfer_token_NoCheck(st, address_from, address_to, amount) ==
    LET balance_from == BigInteger(balance_of(st, address_from)) - BigInteger(amount)
        s1 == Put(Delete(st, address_from), address_from, ToByteArray(balance_from))
        balance_to == BigInteger(balance_of(s1, address_to)) + BigInteger(amount)
        s2 == Put(Delete(s1, address_to), address_to, ToByteArray(balance_to))
    IN IF BigInteger(amount) <= 0
       THEN Ret(st, FALSE)
       ELSE IF address_from = address_to
       THEN Ret(st, TRUE)
       ELSE Ret(s2, TRUE)

transfer_token(st, address_from, address_to, amount) ==
    LET balance_from == BigInteger(balance_of(st, address_from)) - BigInteger(amount)
        s1 == Put(Delete(st, address_from), address_from, ToByteArray(balance_from))
        balance_to == BigInteger(balance_of(s1, address_to)) + BigInteger(amount)
        s2 == Put(Delete(s1, address_to), address_to, ToByteArray(balance_to))
    IN IF BigInteger(amount) <= 0
       THEN Ret(st, FALSE)
       ELSE IF address_from = address_to
       THEN Ret(st, TRUE)
       ELSE IF BigInteger(balance_of(st, address_from)) < BigInteger(amount)
       THEN Ret(st, FALSE)
       ELSE Ret(s2, TRUE)

\* buy_offer: the price goes from the buyer to the owner of the offer, the
\* offer is removed, the item is given to the buyer
buy_offer(st, signer, m, address_from, offer_id) ==
    LET offer == deserialize_bytearray(get_offer(st, m, offer_id))
        paid == transfer_token(st, address_from, offer[1], offer[4])
        removed == remove_offer(paid.st, m, offer[2])
    IN IF ~CheckWitness(signer, marketplace_owner(st, m))
       THEN Ret(st, FALSE)
       ELSE IF offer = <<>>
       THEN Ret(st, FALSE)
       ELSE IF ~paid.ret
       THEN Ret(st, FALSE)
       ELSE IF removed.ret
       THEN Ret(contract_give_items(removed.st, signer,
                                    <<m, address_from, offer[3]>>).st, TRUE)
       ELSE Ret(paid.st, FALSE)

\* cancel_offer: only for the address that owns the offer; the offer is
\* removed and the item is given back
cancel_offer(st, signer, m, address, offer_id) ==
    LET offer == deserialize_bytearray(get_offer(st, m, offer_id))
        removed == remove_offer(st, m, offer[2])
        given == contract_give_items(removed.st, signer, <<m, address, offer[3]>>)
    IN IF ~CheckWitness(signer, marketplace_owner(st, m))
       THEN Ret(st, FALSE)
       ELSE IF offer = <<>>
       THEN Ret(st, FALSE)
       ELSE IF address # offer[1]
       THEN Ret(st, FALSE)
       ELSE IF removed.ret
       THEN Ret(given.st, given.ret)
       ELSE Ret(st, FALSE)

\* Main, Application trigger: the operations on items, offers and tokens
Main(st, signer, operation, args) ==
    IF operation = "give_items"
    THEN contract_give_items(st, signer, args)
    ELSE IF operation = "remove_item" /\ Len(args) = 3
    THEN remove_item(st, signer, args[1], args[2], args[3])
    ELSE IF operation = "transfer_item" /\ Len(args) = 4
    THEN transfer_item(st, signer, args[1], args[2], args[3], args[4])
    ELSE IF operation = "put_offer" /\ Len(args) = 4
    THEN put_offer(st, signer, args[1], args[2], args[3], args[4])
    ELSE IF operation = "buy_offer" /\ Len(args) = 3
    THEN buy_offer(st, signer, args[1], args[2], args[3])
    ELSE IF operation = "cancel_offer" /\ Len(args) = 3
    THEN cancel_offer(st, signer, args[1], args[2], args[3])
    ELSE IF operation = "transfer" /\ Len(args) = 3
            /\ CheckWitness(signer, contract_owner)
    THEN transfer_token(st, args[1], args[2], args[3])
    ELSE Ret(st, FALSE)

\* the invocations explored: who signed, the operation and its arguments
OfferIds == {OfferWord \o ToByteArray(i) : i \in 1..MaxPut}
Prices == {ToByteArray(p) : p \in 0..Circulation}
Amounts == {ToByteArray(p) : p \in -1..Circulation}

Invocations(operation) ==
    LET Inv(argss) == {[signer |-> s, operation |-> operation, args |-> a] :
                          s \in Signers, a \in argss}
    IN IF operation \in {"give_items", "remove_item"}
       THEN Inv({<<m, a, i>> : m \in ContractMarkets, a \in Addresses,
                               i \in ItemIds})
       ELSE IF operation = "transfer_item"
       THEN Inv({<<m, a, b, i>> : m \in ContractMarkets, a \in Addresses,
                                  b \in Addresses, i \in ItemIds})
       ELSE IF operation = "put_offer"
       THEN Inv({<<m, a, i, p>> : m \in ContractMarkets, a \in Addresses,
                                  i \in ItemIds, p \in Prices})
       ELSE IF operation \in {"buy_offer", "cancel_offer"}
       THEN Inv({<<m, a, o>> : m \in ContractMarkets, a \in Addresses,
                               o \in OfferIds})
       ELSE Inv({<<a, b, p>> : a \in Addresses, b \in Addresses, p \in Amounts})

Invoke(st, c) == Main(st, c.signer, c.operation, c.args)

\* what the storage holds, read the way the contract reads it
InventoryOf(st, m, address) == deserialize_bytearray(get_inventory(st, m, address))
OffersOf(st, m) == deserialize_bytearray(get_all_offers(st, m))
OfferRecord(st, id) == deserialize_bytearray(Get(st, id))
BalanceOf(st, address) == BigInteger(balance_of(st, address))
OfferIndex(st, m) ==
    LET index == BigInteger(Get(st, current_offer_index_key \o m))
    IN IF index = 0 THEN 1 ELSE index

RECURSIVE CountIn(_, _)
CountIn(list, x) ==
    IF list = <<>> THEN 0
    ELSE (IF Head(list) = x THEN 1 ELSE 0) + CountIn(Tail(list), x)

\* the items of the open offers of a marketplace, in the order of its list
OfferedItems(st, m) ==
    LET offers == OffersOf(st, m)
    IN [k \in 1..Len(offers) |->
           LET offer == OfferRecord(st, offers[k])
           IN IF Len(offer) >= 3 THEN offer[3] ELSE <<>>]

RECURSIVE SumOver(_, _, _, _)
SumOver(st, m, x, addresses) ==
    IF addresses = {} THEN 0
    ELSE LET a == CHOOSE a \in addresses : TRUE
         IN CountIn(InventoryOf(st, m, a), x) + SumOver(st, m, x, addresses \ {a})

\* how many times item x is held on marketplace m: in the inventories and in
\* the open offers
Held(st, m, x) == SumOver(st, m, x, Addresses) + CountIn(OfferedItems(st, m), x)

RECURSIVE SumHeld(_, _)
SumHeld(st, items) ==
    IF items = {} THEN 0
    ELSE LET x == CHOOSE x \in items : TRUE
         IN Held(st, MarketName, x) + SumHeld(st, items \ {x})

\* An invocation in a persisted block: the storage is what Main leaves.
\* give_items is explored while fewer than MaxItems items are held, put_offer
\* for the first MaxPut offers of the marketplace.
C_Invoke(operation) ==
    /\ operation = "give_items" => SumHeld(storage, ItemIds) < MaxItems
    /\ operation = "put_offer" => OfferIndex(storage, MarketName) <= MaxPut
    /\ \E c \in Invocations(operation) : storage' = Invoke(storage, c).st
    /\ UNCHANGED <<invoke_queue, pc, task, wallet, walletdb_loop, tx_in_progress,
                   cached_offers, redis_tx, redis_offers, redis_result,
                   walletHeight, balances, apc, areq, nextId, submitted,
                   waitEnded, completed, anyFail, attempt, ahead, lastRead,
                   ledgerVars, routeVars, queryVars, wait_poll>>

\* the state after __init__, the sync wait taken alone left aside
InitProgram ==
    /\ invoke_queue = <<>>
    /\ pc = "get"
    /\ task = NoTask
    /\ wallet = FALSE
    /\ walletdb_loop = FALSE
    /\ tx_in_progress = None
    /\ cached_offers = <<>>
    /\ redis_tx = [k \in Keys |-> None]
    /\ redis_offers = NoCache
    /\ redis_result = [o \in ResultOps |-> "unset"]
    /\ walletHeight \in 0..ChainHeight
    /\ balances \in {"empty", "nogas", "gas"}
    /\ apc = "idle"
    /\ areq = NoReq
    /\ nextId = 0
    /\ submitted = <<>>
    /\ waitEnded = 0
    /\ completed = {}
    /\ anyFail = FALSE
    /\ attempt = NoAttempt
    /\ ahead = [i \in 1..MaxOps |-> {}]
    /\ lastRead = NoRead
    /\ onchain = {}
    /\ c_inventory = <<>>
    /\ redis_txfound = [k \in Keys |-> "unset"]
    /\ redis_inventory = NoCache
    /\ enq = <<>>
    /\ lastSearch = NoSearch
    /\ redis_owner = [m \in Markets |-> "unset"]
    /\ redis_balance = NoCache
    /\ lastEvent = NoEvent
    /\ emitted = [tx \in 1..MaxOps |-> "unset"]

\* the parts taken alone stand still in the program's specifications
InitAlone ==
    /\ wait_poll = NoPoll
    /\ storage = NoStorage

Init == InitProgram /\ sync_wait = NoSync /\ InitAlone

\* The worker, the routes that enqueue, dry-runs that reserve an offer, and
\* claim_gas.  The worker never looks at the offer a task names, so one offer
\* index is enough here; the routes mint a fresh key for every add_invoke.
QueueOffers == {3}
\* The worker never looks at the result an operation returns in the contract
\* either: here every operation returns True (SpecStatus explores both).
QueueFlags == {TRUE}

Next ==
    \/ W_Get
    \/ W_Open
    \/ W_Sync
    \/ W_Gas
    \/ W_Rebuild
    \/ \E res \in {"tx", "notx_notified", "notx_silent"}, flag \in QueueFlags :
          W_DryRun(res, flag)
    \/ \E sent \in BOOLEAN : W_Invoke(sent)
    \/ \E found \in BOOLEAN : W_WaitForTx(found)
    \/ W_Finish
    \/ W_Requeue
    \/ \E op \in WriteOps, n \in QueueOffers : A_AddInvoke(op, nextId + 1, n)
    \/ \E req \in {r \in ReserveRequests : r.offer.idx \in QueueOffers} :
          A_TestInvokeBegin(req)
    \/ \E res \in {"tx", "notx_notified", "notx_silent"}, flag \in QueueFlags :
          A_TestInvokeEnd(res, <<>>, flag)
    \/ A_ClaimGasBegin
    \/ A_ClaimGasEnd
    \/ \E b \in {"nogas", "gas"} : E_ProcessBlocks(b)
    \/ \E tx \in 1..MaxOps, flag \in QueueFlags : E_Persist(tx, flag)

Spec == Init /\ [][Next]_vars

\* The same program when the caller of add_invoke passes any transaction key
\* (add_invoke takes the key as a parameter).
NextKeys ==
    \/ W_Get
    \/ W_Open
    \/ W_Sync
    \/ W_Gas
    \/ W_Rebuild
    \/ \E res \in {"tx", "notx_notified", "notx_silent"}, flag \in BOOLEAN :
          W_DryRun(res, flag)
    \/ \E sent \in BOOLEAN : W_Invoke(sent)
    \/ \E found \in BOOLEAN : W_WaitForTx(found)
    \/ W_Finish
    \/ W_Requeue
    \/ \E op \in WriteOps, key \in Keys, n \in OfferIdx : A_AddInvoke(op, key, n)
    \/ \E req \in ReserveRequests : A_TestInvokeBegin(req)
    \/ \E res \in {"tx", "notx_notified", "notx_silent"}, flag \in BOOLEAN :
          A_TestInvokeEnd(res, <<>>, flag)
    \/ A_ClaimGasBegin
    \/ A_ClaimGasEnd
    \/ \E b \in {"nogas", "gas"} : E_ProcessBlocks(b)
    \/ \E tx \in 1..MaxOps, flag \in BOOLEAN : E_Persist(tx, flag)

SpecKeys == Init /\ [][NextKeys]_vars

\* The read path together with the worker: the get_offers route, buy_offer
\* dry-runs that reserve an offer, and buy_offer writes.
NextRead ==
    \/ W_Get
    \/ W_Open
    \/ W_Sync
    \/ W_Gas
    \/ W_Rebuild
    \/ \E res \in {"tx", "notx_notified", "notx_silent"}, flag \in BOOLEAN :
          W_DryRun(res, flag)
    \/ \E sent \in BOOLEAN : W_Invoke(sent)
    \/ \E found \in BOOLEAN : W_WaitForTx(found)
    \/ W_Finish
    \/ W_Requeue
    \/ \E n \in OfferIdx : A_AddInvoke("buy_offer", nextId + 1, n)
    \/ \E req \in ReadRequests \cup {r \in ReserveRequests : r.ttype = "offer"} :
          A_TestInvokeBegin(req)
    \/ \E res \in {"tx", "notx_notified", "notx_silent"}, payload \in OfferLists,
          flag \in BOOLEAN : A_TestInvokeEnd(res, payload, flag)
    \/ \E b \in {"nogas", "gas"} : E_ProcessBlocks(b)
    \/ \E tx \in 1..MaxOps, flag \in BOOLEAN : E_Persist(tx, flag)

SpecRead == Init /\ [][NextRead]_vars

\* The worker under fair scheduling, with a node that answers each call the
\* same way every time: an operation on an offer of BrokenOffers gets no
\* transaction from TestInvokeContract at any attempt, every other operation
\* gets one and InvokeContract relays it.  The routes only enqueue (the
\* buy_offer route reserves nothing).
BrokenOffers == {65}

LedgerRejects(t) == t.op \in OfferOps /\ t.offer.idx \in BrokenOffers

W_DryRunLive ==
    IF LedgerRejects(task)
    THEN W_DryRun("notx_silent", TRUE)
    ELSE W_DryRun("tx", TRUE)

Worker ==
    \/ W_Get
    \/ W_Open
    \/ W_Sync
    \/ W_Gas
    \/ W_Rebuild
    \/ W_DryRunLive
    \/ W_Invoke(TRUE)
    \/ \E found \in BOOLEAN : W_WaitForTx(found)
    \/ W_Finish
    \/ W_Requeue

NextLive ==
    \/ Worker
    \/ \E op \in WriteOps, n \in OfferIdx : A_AddInvoke(op, nextId + 1, n)
    \/ \E b \in {"nogas", "gas"} : E_ProcessBlocks(b)
    \/ \E tx \in 1..MaxOps : E_Persist(tx, TRUE)

\* run is a thread of its own: it is never starved
SpecLive == Init /\ [][NextLive]_vars /\ WF_vars(Worker)

\* The status path together with the worker: the search route, the
\* inventory route, and the blocks that carry the sent transactions.  The
\* operations are give_items calls; they return True or False in the
\* contract.  The inventory dry run is the one that returns a transaction.
NextStatus ==
    \/ W_Get
    \/ W_Open
    \/ W_Sync
    \/ W_Gas
    \/ W_Rebuild
    \/ \E res \in {"tx", "notx_notified"}, flag \in BOOLEAN : W_DryRun(res, flag)
    \/ W_Invoke(TRUE)
    \/ \E found \in BOOLEAN : W_WaitForTx(found)
    \/ W_Finish
    \/ W_Requeue
    \/ \E n \in QueueOffers : A_AddInvoke("give_items", nextId + 1, n)
    \/ \E key \in Keys : A_Search(key, "give_items")
    \/ \E req \in InventoryRequests : A_TestInvokeBegin(req)
    \/ A_TestInvokeEnd("tx", <<>>, TRUE)
    \/ E_ProcessBlocks("gas")
    \/ \E tx \in 1..MaxOps, flag \in BOOLEAN : E_Persist(tx, flag)

SpecStatus == Init /\ [][NextStatus]_vars

\* The routes that query through a dry run (inventory, marketplace owner,
\* balance) and the notifications of other clients' invocations; the worker
\* has nothing to do.  The dry runs do not look at the wallet's heights.
InitQuery == Init /\ walletHeight = ChainHeight /\ balances = "gas"

NextQuery ==
    \/ \E req \in InventoryRequests \cup GeneralRequests : A_TestInvokeBegin(req)
    \/ \E res \in {"tx", "notx_notified", "notx_silent"} :
          A_TestInvokeEnd(res, <<>>, TRUE)
    \/ \E ev \in ContractEvents : E_Notify(ev)

SpecQuery == InitQuery /\ [][NextQuery]_vars

\* The sync wait taken alone, for every wallet height and ledger height up
\* to MaxHeight.
InitSync ==
    /\ InitProgram
    /\ walletHeight = 0
    /\ balances = "empty"
    /\ sync_wait \in {[h |-> h, H |-> H, polled |-> FALSE, synced |-> FALSE] :
                         h \in 0..MaxHeight, H \in 1..MaxHeight}
    /\ InitAlone

NextSync == SyncWait \/ SyncBlock

SpecSync == InitSync /\ [][NextSync]_vars

\* The reservation list with room for a second entry: buy_offer dry runs of
\* transaction type "offer" for the offers of OfferIdx, buy_offer operations
\* for them, and a node and a ledger that accept everything.
NextReserve ==
    \/ W_Get
    \/ W_Open
    \/ W_Sync
    \/ W_Gas
    \/ W_Rebuild
    \/ W_DryRun("tx", TRUE)
    \/ W_Invoke(TRUE)
    \/ \E found \in BOOLEAN : W_WaitForTx(found)
    \/ W_Finish
    \/ W_Requeue
    \/ \E n \in OfferIdx : A_AddInvoke("buy_offer", nextId + 1, n)
    \/ \E req \in {r \in ReserveRequests : r.ttype = "offer"} :
          A_TestInvokeBeginAgain(req)
    \/ A_TestInvokeEnd("tx", <<>>, TRUE)
    \/ E_ProcessBlocks("gas")
    \/ \E tx \in 1..MaxOps : E_Persist(tx, TRUE)

SpecReserve == Init /\ [][NextReserve]_vars

\* The confirmation poll taken alone, from its call to its return; the
\* ledger answers each query either way.  The worker thread runs on, so a
\* step of the poll that can be taken is taken.
InitWait ==
    /\ InitProgram
    /\ walletHeight = 0
    /\ balances = "empty"
    /\ sync_wait = NoSync
    /\ wait_poll = [NoPoll EXCEPT !.at = "loop"]
    /\ storage = NoStorage

NextWait ==
    \/ \E in_block \in BOOLEAN : WaitQuery(in_block)
    \/ WaitSleep
    \/ WaitGiveUp

SpecWait == InitWait /\ [][NextWait]_vars /\ WF_vars(NextWait)

\* The contract taken alone: the marketplace is registered to MarketOwner and
\* address "A" holds the LOOT in circulation; invocations arrive in any order.
InitContract ==
    /\ InitProgram
    /\ walletHeight = 0
    /\ balances = "empty"
    /\ sync_wait = NoSync
    /\ wait_poll = NoPoll
    /\ storage = Put(Put(NoStorage, marketplace_key \o MarketName, MarketOwner),
                     <<65>>, ToByteArray(Circulation))

NextContract ==
    \/ C_Invoke("give_items")
    \/ C_Invoke("remove_item")
    \/ C_Invoke("transfer_item")
    \/ C_Invoke("put_offer")
    \/ C_Invoke("buy_offer")
    \/ C_Invoke("cancel_offer")
    \/ C_Invoke("transfer")

SpecContract == InitContract /\ [][NextContract]_vars

\* ------------------------------------------------------------ properties
InFlight == Len(submitted) - waitEnded

SubmittedIds == {submitted[i].id : i \in 1..Len(submitted)}

Holding(id) == pc # "get" /\ task.id = id

\* a task with key k is queued or held by the worker, or k has a record
KeyPresent(k) ==
    \/ \E i \in 1..Len(invoke_queue) : invoke_queue[i].key = k
    \/ pc # "get" /\ task.key = k
    \/ redis_tx[k] # None

\* C1: single-flight -- in every reachable state at most one Operation has
\* been handed to the real invoke without its confirmation wait having ended.
C1_SingleFlight == InFlight <= 1

C1_Witness ==
    /\ pc = "wait"
    /\ Len(submitted) = 2
    /\ InFlight = 1
    /\ apc = "test"

\* C2: FIFO ordering -- as long as no invoke attempt has failed, the
\* Operations are submitted in exactly the order of their enqueue: the
\* i-th submission is the i-th enqueued task.
C2_Fifo == ~anyFail => \A i \in 1..Len(submitted) : submitted[i].id = i

C2_Witness == ~anyFail /\ Len(submitted) = 2

\* C3: retry reordering -- when the worker attempts a task again, every task
\* that was waiting in the queue when it was re-queued has been attempted
\* in between; the failed task is never re-attempted ahead of them.
C3_RetryReorder == pc # "get" => ahead[task.id] = {}

C3_Witness ==
    /\ pc = "open"
    /\ task.id = 1
    /\ 2 \in completed
    /\ 1 \notin completed

\* C4: re-queue only before submission -- no task for which the real invoke
\* returned a transaction is ever on the queue or attempted again.
C4_NoRequeueAfterSubmit ==
    /\ \A i \in 1..Len(invoke_queue) : invoke_queue[i].id \notin SubmittedIds
    /\ pc \in {"open", "sync", "gas", "rebuild", "dryrun", "invoke"}
          => task.id \notin SubmittedIds

\* C5: no Operation is lost and the worker survives every failure -- every
\* accepted task that has not completed an invoke without error is exactly
\* once in the queue or in the worker's hands, and after a failure the worker
\* can put the task back and take the next one.
C5_NoOpLost ==
    /\ \A id \in 1..nextId :
          id \notin completed =>
             Cardinality({i \in 1..Len(invoke_queue) : invoke_queue[i].id = id})
                + (IF Holding(id) THEN 1 ELSE 0) = 1
    /\ pc = "backoff" => ENABLED W_Requeue
    /\ (pc = "get" /\ invoke_queue # <<>>) => ENABLED W_Get

C5_Witness ==
    /\ anyFail
    /\ pc = "open"
    /\ task.id = 2
    /\ 1 \in QueueIds

\* C6: duplicate guard -- an add_invoke whose key is already present
\* (queued, in flight or recorded) adds nothing to the queue: every task an
\* add_invoke appends carries a key that was not present before the call.
C6_DuplicateGuard ==
    [][nextId' # nextId => ~KeyPresent(invoke_queue'[Len(invoke_queue')].key)]_vars

\* C7: a confirmation timeout is not a retry -- when the poll ended without
\* finding the transaction, the attempt ends completed: the task is not
\* re-queued, the in-flight marker is cleared and the wallet is closed.
C7_TimeoutCompletes ==
    [][(pc = "finish" /\ attempt.timedOut /\ pc' # "finish")
         => /\ pc' = "get"
            /\ task.id \in completed'
            /\ invoke_queue' = invoke_queue
            /\ tx_in_progress' = None
            /\ ~wallet']_vars

\* C8: TransactionRecord integrity -- a record exists for a key only if a
\* real invoke of a task with that key returned a transaction, and the tx
\* id stored for a key is never replaced.
C8_TxRecordIntegrity ==
    /\ [](\A k \in Keys : redis_tx[k] # None
              => \E i \in 1..Len(submitted) : submitted[i].key = k)
    /\ [][\A k \in Keys : redis_tx[k] # None => redis_tx'[k] = redis_tx[k]]_vars

\* C9: no premature projection -- in an attempt where wallet_has_gas() was
\* false, neither the dry run nor the real invoke runs: the attempt writes
\* no TransactionRecord and no operation result, submits nothing, fails, and
\* the task is back on the queue when the attempt is over.
C9_NoPrematureProjection ==
    attempt.gasFalse =>
        /\ attempt.writes = {}
        /\ ~attempt.sent
        /\ attempt.id \notin completed
        /\ pc \in {"rebuild", "backoff", "get"}
        /\ pc # "rebuild" => anyFail
        /\ pc = "get" => attempt.id \in QueueIds

C9_Witness == attempt.gasFalse /\ pc = "get" /\ attempt.id \in QueueIds

\* C10: reservation hiding -- no offer list served by the get_offers route
\* contains an offer that is in the reservation list when it is served.
C10_ReservationHiding ==
    lastRead.served =>
        \A i \in 1..Len(lastRead.offers) : lastRead.offers[i] \notin lastRead.reserved

\* the offer indices that have an entry in the reservation list
ReservedIdx == {cached_offers[i].idx : i \in 1..Len(cached_offers)}

\* C11: release of the corresponding reservation -- when a buy_offer or
\* cancel_offer task for offer O finishes its submission, exactly the entry
\* of O leaves the reservation list and every other offer stays reserved.
C11_ReleaseCorresponding ==
    [][(pc = "finish" /\ pc' = "get" /\ task.op \in OfferOps)
          => ReservedIdx' = ReservedIdx \ {task.offer.idx}]_vars

\* C12: release on failure -- when an attempt of a buy_offer or cancel_offer
\* task fails, the offer of the task is not reserved any more.
C12_ReleaseOnFailure ==
    [][(pc # "backoff" /\ pc' = "backoff" /\ task.op \in OfferOps)
          => task.offer.idx \notin ReservedIdx']_vars

\* C13: an orphaned reservation is never released -- an offer that is
\* reserved and for which no write was ever enqueued stays reserved in the
\* next state, whatever step is taken.
C13_OrphanStays ==
    [][\A o \in OfferIdx :
          (o \in ReservedIdx /\ \A i \in 1..Len(enq') : enq'[i].idx # o)
             => o \in ReservedIdx']_vars

\* A test_invoke call ends; it got a transaction exactly when it leaves the
\* wallet open (without a transaction the wallet is closed, and without a
\* wallet the call raises); with a transaction and a transaction type other
\* than "offer" the call raises at the use of offer_id.
TestInvokeEnds == apc = "test" /\ apc' = "idle"
TestInvokeGotTx == wallet /\ wallet'
TestInvokeReturns == wallet /\ (~wallet' \/ areq.ttype = "offer")

\* C14: reservation on dry-run -- every test_invoke of buy_offer or
\* cancel_offer that returns to its caller has the offer in the reservation
\* list when it returns.
C14_ReservationOnDryRun ==
    [][(TestInvokeEnds /\ areq.op \in OfferOps /\ TestInvokeReturns)
          => areq.offer.idx \in ReservedIdx']_vars

\* C14, amended: a test_invoke of buy_offer or cancel_offer appends the
\* offer to the reservation list exactly when TestInvokeContract gave a
\* transaction and the transaction type is "offer"; every other call leaves
\* the list as it was.
C14_ReservationOnTx ==
    [][(TestInvokeEnds /\ areq.op \in OfferOps)
          => cached_offers' = IF TestInvokeGotTx /\ areq.ttype = "offer"
                              THEN Append(cached_offers, areq.offer)
                              ELSE cached_offers]_vars

C14_Witness ==
    /\ apc = "idle"
    /\ wallet
    /\ cached_offers = <<ApiOfferId(3)>>
    /\ invoke_queue = <<>>
    /\ pc = "get"

\* the wallet is synced and holds gas
Funded ==
    /\ percent_synced(walletHeight, ChainHeight) > SyncPercent
    /\ wallet_has_gas

\* the node accepts the operation enqueued as number id
Accepted(id) == id \in 1..Len(enq) /\ enq[id].idx \notin BrokenOffers

KeySubmitted(k) == \E i \in 1..Len(submitted) : submitted[i].key = k

\* C15: liveness after a funds outage -- as long as the operation of a key
\* was not submitted, the search route answers {unset, unset} for it; and if
\* from some point on the wallet stays synced and funded, an operation the
\* node accepts whose attempt failed on the gas check is eventually submitted.
C15_LivenessAfterOutage ==
    /\ [](\A k \in Keys, op \in WriteOps :
            ~KeySubmitted(k) =>
                LET a == search_transaction(search_tx(k), k, op)
                IN  a.tx_found = "unset" /\ a.operation_complete = "unset")
    /\ <>[]Funded =>
          \A id \in 1..MaxOps :
             [](attempt.gasFalse /\ attempt.id = id /\ Accepted(id)
                   => <>(id \in SubmittedIds))

\* C16: a failing operation does not block the others -- if from some point
\* on the wallet stays synced and funded, every queued operation the node
\* accepts is eventually submitted, whatever operations fail around it; and
\* a failed task is attempted again only after all that waited behind it.
C16_NoBlocking ==
    /\ [](pc = "open" => ahead[task.id] = {})
    /\ <>[]Funded =>
          \A b \in 1..MaxOps :
             []((b \in QueueIds /\ Accepted(b)) => <>(b \in SubmittedIds))

\* C17: status lookup of an unsubmitted key -- for a key without a cached tx
\* id the search route answers tx_found unset and operation_complete unset,
\* and "tx" + key is never written; operation_complete is answered only
\* together with tx_found "True".
C17_UnsubmittedStatus ==
    /\ \A k \in Keys : redis_tx[k] = None => redis_txfound[k] = "unset"
    /\ (lastSearch.key # 0 /\ redis_tx[lastSearch.key] = None)
          => /\ lastSearch.tx_found = "unset"
             /\ lastSearch.operation_complete = "unset"
    /\ lastSearch.operation_complete # "unset" => lastSearch.tx_found = "True"

C17_Witness ==
    /\ lastSearch.key = 2
    /\ redis_tx[2] = None
    /\ 2 \in QueueIds
    /\ redis_result[lastSearch.op] = "true"
    /\ redis_txfound[1] = "True"

\* C18: status idempotence -- when a search call answered tx_found "True"
\* for a key, the next search call for the same key and operation gives the
\* same answer, whatever happened between the two calls.
C18_StatusIdempotence ==
    [][(/\ lastSearch.tx_found = "True"
        /\ lastSearch'.key = lastSearch.key
        /\ lastSearch'.op = lastSearch.op)
          => lastSearch' = lastSearch]_vars

\* the give_items operation sent as transaction tx is the only give_items
\* enqueued, its invoke is over, its block is persisted and the contract gave
\* the items
OnlyGive(id) ==
    /\ enq[id].op = "give_items"
    /\ \A j \in 1..Len(enq) : j # id => enq[j].op # "give_items"

GaveItems(tx) ==
    /\ tx \in onchain
    /\ OnlyGive(submitted[tx].id)
    /\ submitted[tx].id \in completed
    /\ c_inventory # <<>>

ContainsAll(inventory, items) ==
    \A i \in 1..Len(items) : items[i] \in SeqToSet(inventory)

\* C19: after give_items(K1, [addrA, 1, 2, 3]) was processed with success, an
\* inventory query whose dry run went through answers an inventory that
\* contains 1, 2, 3, and a search for K1 and "give_items" answers tx_found
\* "True" and operation_complete true.
C19_GiveItemsScenario ==
    [][\A tx \in 1..Len(submitted) :
          GaveItems(tx) =>
             /\ (TestInvokeEnds /\ areq.op = "get_inventory" /\ TestInvokeGotTx)
                   => /\ redis_inventory'.set
                      /\ ContainsAll(redis_inventory'.val, GiveArgs)
             /\ (/\ lastSearch' # lastSearch
                 /\ lastSearch'.key = submitted[tx].key
                 /\ lastSearch'.op = "give_items")
                   => /\ lastSearch'.tx_found = "True"
                      /\ lastSearch'.operation_complete = "true"]_vars

C19_Witness ==
    /\ GaveItems(1)
    /\ lastSearch = [key |-> submitted[1].key, op |-> "give_items",
                     tx_found |-> "True", operation_complete |-> "true"]
    /\ redis_inventory = [set |-> TRUE, val |-> GiveArgs]
    /\ apc = "idle"

\* a step in which sc_notify runs: the worker's dry run, a test_invoke dry
\* run, or a persisted block
NotifyStep ==
    \/ pc = "dryrun" /\ pc' # "dryrun"
    \/ TestInvokeEnds
    \/ onchain' # onchain

\* C20: single cache writer -- every step that changes a key of the cache
\* is a step of sc_notify.
C20_SingleCacheWriter ==
    [][<<redis_tx, redis_txfound, redis_offers, redis_result, redis_inventory>>'
          # <<redis_tx, redis_txfound, redis_offers, redis_result, redis_inventory>>
       => NotifyStep]_vars

\* C20, amended: the projections (offers, inventory, operation results) are
\* written only in steps of sc_notify; the tx id of a transaction key is
\* written by invoke_operation when InvokeContract returned a transaction,
\* and "tx" + key by search_tx of the search route; test_invoke and the rest
\* of the worker write no key.
C20_ProjectionWriter ==
    [][/\ <<redis_offers, redis_result, redis_inventory>>'
            # <<redis_offers, redis_result, redis_inventory>> => NotifyStep
       /\ redis_tx' # redis_tx => (pc = "invoke" /\ pc' = "wait")
       /\ redis_txfound' # redis_txfound
            => /\ apc = "idle" /\ apc' = "idle" /\ pc' = pc
               /\ redis_txfound' = search_tx(lastSearch'.key)]_vars

C20_Witness ==
    /\ redis_tx[1] # None
    /\ redis_txfound[1] = "True"
    /\ redis_result["give_items"] = "true"
    /\ redis_inventory.set
    /\ pc = "get"

\* the worker is inside invoke_operation, past its open_wallet call
InAttempt == pc \in {"sync", "gas", "rebuild", "dryrun", "invoke", "wait", "finish"}

\* C21: claim_gas is mutually exclusive with queue processing -- claim_gas
\* never holds the wallet (between its open_wallet and its close_wallet)
\* while the worker is inside an invoke attempt, and so never closes the
\* wallet underneath a running invoke.
C21_ClaimGasExclusive == apc = "claim" => ~InAttempt

\* C22: readers do not disturb the writer -- the wallet the worker opened is
\* there when it dry-runs and sends, and a test_invoke call that ends during
\* an invoke attempt leaves the wallet handle and the in-flight marker as
\* they were.
C22_ReadersDoNotDisturb ==
    /\ [](pc \in {"dryrun", "invoke"} => wallet)
    /\ [][(TestInvokeEnds /\ InAttempt)
             => wallet' = wallet /\ tx_in_progress' = tx_in_progress]_vars

\* steps that call open_wallet / close_wallet from the routes, and the
\* worker's call at the head of invoke_operation
OpenStep ==
    \/ pc = "open" /\ pc' # "open"
    \/ apc = "idle" /\ apc' \in {"test", "claim"}
CloseStep == apc = "claim" /\ apc' = "idle"

\* C27: wallet gate -- open_wallet on an open wallet and close_wallet on a
\* closed wallet change nothing, and the wallet is set exactly when the
\* ProcessBlocks loop is running (each call taken as one step).
C27_WalletGate ==
    /\ [](wallet <=> walletdb_loop)
    /\ [][(wallet /\ OpenStep) => (wallet' /\ walletdb_loop')]_vars
    /\ [][(~wallet /\ CloseStep) => (~wallet' /\ ~walletdb_loop')]_vars

C27_Witness ==
    /\ wallet
    /\ walletdb_loop
    /\ pc = "sync"
    /\ apc = "claim"
    /\ completed # {}

\* C29: the in-flight guard is unreachable -- whenever the worker starts an
\* invoke attempt, tx_in_progress is clear.
C29_GuardUnreachable == pc = "open" => tx_in_progress = None

\* C30: projection-time filter -- the offer list a get_all_offers
\* notification writes is the notification's list without the offers that
\* are reserved when it is handled, in the notification's order.
C30_ProjectionFilter ==
    [][(TestInvokeEnds /\ areq.op = "get_all_offers" /\ TestInvokeGotTx)
          => \A p \in OfferLists :
                redis_offers'.val = sc_notify_get_all_offers(p, cached_offers)
                   => redis_offers'.val
                        = SelectSeq(p, LAMBDA i : i \notin ReservedIdx)]_vars

\* a test_invoke call ends without a transaction: the wallet it used is
\* closed on return
TestInvokeNoTx == TestInvokeEnds /\ wallet /\ ~wallet'

\* C23: read-path failures are surfaced -- when the dry run of a query gives
\* no transaction, the route answers an error, not a value of the cache.
C23_ReadFailureSurfaced ==
    [][TestInvokeNoTx
          => /\ areq.op = "get_inventory"
                   => get_inventory_route(redis_inventory').error
             /\ areq.op = "balance_of"
                   => loot_balance_route(redis_balance').error]_vars

\* sc_notify handles a notification of another client's invocation
ForeignNotify == lastEvent' # lastEvent

\* C24: marketplace filter -- a marketplace notification that names another
\* marketplace than the served one changes no key of the cache; a balance_of
\* or marketplace owner notification is projected whatever marketplace it
\* names.
C24_MarketplaceFilter ==
    [][ForeignNotify
          => /\ (lastEvent'.name \in ResultOps /\ lastEvent'.market # marketplace)
                   => <<redis_tx, redis_txfound, redis_offers, redis_result,
                        redis_inventory, redis_owner, redis_balance>>'
                      = <<redis_tx, redis_txfound, redis_offers, redis_result,
                          redis_inventory, redis_owner, redis_balance>>
             /\ lastEvent' = Main_balance_of
                   => redis_balance' = [set |-> TRUE, val |-> LootBalance]
             /\ (\E m \in Markets : lastEvent' = Main_marketplace_owner(m))
                   => redis_owner'[lastEvent'.market] = OwnerOf(lastEvent'.market)]_vars

\* C25: operation results are projected for all six write operations -- a
\* notification of give_items, remove_item, transfer_item, buy_offer,
\* cancel_offer or put_offer for the served marketplace sets the cached
\* result of that operation to the notification's flag.
C25_AllResultsProjected ==
    [][(ForeignNotify /\ lastEvent'.name \in ResultOps
                      /\ lastEvent'.market = marketplace)
          => redis_result'[lastEvent'.name]
                = (IF lastEvent'.flag THEN "true" ELSE "false")]_vars

\* C26: marketplace owner projection -- after a marketplace_owner dry run
\* that went through, "owner:" + marketplace holds the owner the contract
\* notified.
C26_OwnerProjection ==
    [][(TestInvokeEnds /\ areq.op = "marketplace_owner" /\ TestInvokeGotTx)
          => redis_owner'[marketplace] = OwnerOf(marketplace)]_vars

\* C28: sync threshold -- a pass of the sync wait ends the wait exactly when
\* 100 * h > 99 * H.
C28_SyncThreshold ==
    sync_wait.polled
       => (sync_wait.synced <=> 100 * sync_wait.h > 99 * sync_wait.H)

\* C28, amended: percent_synced is the percentage cut to an integer, so a
\* pass ends the wait exactly when the wallet height has reached the ledger
\* height.
C28_SyncFull ==
    sync_wait.polled => (sync_wait.synced <=> sync_wait.h >= sync_wait.H)

C28_Witness ==
    /\ sync_wait.polled
    /\ ~sync_wait.synced
    /\ 100 * sync_wait.h > 99 * sync_wait.H

\* C33: reservation removal cannot fail -- whenever the worker stands at the
\* reservation-removal step of a buy_offer or cancel_offer, after the
\* submission and the confirmation wait, cached_offers is not empty.
C33_RemovalCannotFail ==
    (pc = "finish" /\ task.op \in OfferOps) => cached_offers # <<>>

\* C34: status results are not mixed -- when the last search call answered
\* tx_found "True" together with an operation_complete value, that value is
\* the result notified by the invocation of the transaction cached under the
\* searched key when its block was persisted.
C34_StatusNotMixed ==
    (lastSearch.tx_found = "True" /\ lastSearch.operation_complete # "unset")
       => lastSearch.operation_complete = emitted[redis_tx[lastSearch.key]]

\* the tasks that exist: those waiting in the queue and the one the worker
\* holds
LiveTasks ==
    SeqToSet(invoke_queue) \cup (IF task = NoTask THEN {} ELSE {task})

\* the marketplace is in the argument list exactly once, at the first place
MarketplaceFirstOnce(args) ==
    /\ args # <<>>
    /\ args[1] = marketplace
    /\ \A i \in 2..Len(args) : args[i] # marketplace

\* C31: retries resend the same operation -- every task, re-queued ones
\* included, has the operation name, the key and the argument list given to
\* add_invoke with the marketplace put in front; the except branch of run
\* puts back the very task that was taken; the argument list of a task that
\* is dry-run or sent has the marketplace exactly once, at the first place.
C31_RetrySameOperation ==
    /\ [](\A t \in LiveTasks :
             /\ t.op = enq[t.id].op
             /\ t.key = enq[t.id].key
             /\ t.args = <<marketplace>> \o enq[t.id].args)
    /\ [](pc \in {"dryrun", "invoke"} => MarketplaceFirstOnce(task.args))
    /\ [][(pc = "backoff" /\ pc' = "get")
            => invoke_queue' = Append(invoke_queue, task)]_vars

\* the only task ever enqueued failed once and is being sent again
C31_Witness ==
    /\ pc = "invoke"
    /\ anyFail
    /\ nextId = 1
    /\ task.id = 1
    /\ task.args = <<marketplace, "address", "offer_id_s">>

\* C32: the confirmation poll terminates -- _wait_for_tx makes at most 60
\* queries, one every 5 s of sleep, returns True at the first query that
\* reports the transaction in a block, returns False only after 60 queries
\* that did not, sleeps no more than 300 s, and it does return.
C32_PollTerminates ==
    /\ [](/\ wait_poll.queries <= 60
          /\ wait_poll.slept <= 300
          /\ wait_poll.queries > 0
                => wait_poll.slept \in {5 * (wait_poll.queries - 1),
                                        5 * wait_poll.queries}
          /\ wait_poll.found => /\ wait_poll.returned = "True"
                                /\ wait_poll.slept = 5 * (wait_poll.queries - 1)
          /\ wait_poll.returned = "True" => wait_poll.found
          /\ wait_poll.returned = "False" => /\ ~wait_poll.found
                                             /\ wait_poll.queries = 60
                                             /\ wait_poll.slept = 300)
    /\ <>(wait_poll.at = "done" /\ wait_poll.returned # "none")

\* the poll gave up after its last query
C32_Witness ==
    /\ wait_poll.returned = "False"
    /\ wait_poll.queries = 60
    /\ wait_poll.at = "done"

\* C35: the reservation set behaves as a set -- in every reachable state
\* cached_offers holds at most one entry per offer id.
C35_ReservationIsSet ==
    \A i, j \in 1..Len(cached_offers) :
        cached_offers[i] = cached_offers[j] => i = j

\* the operations of the contract that are bound to a marketplace
MarketOperations ==
    {"give_items", "remove_item", "transfer_item", "put_offer", "buy_offer",
     "cancel_offer"}

\* two storages hold the same inventories, the same lists of offers and the
\* same offers
SameHoldings(s1, s2) ==
    \A m \in ContractMarkets :
        /\ \A a \in Addresses : InventoryOf(s1, m, a) = InventoryOf(s2, m, a)
        /\ OffersOf(s1, m) = OffersOf(s2, m)
        /\ \A o \in OfferIds : OfferRecord(s1, m \o o) = OfferRecord(s2, m \o o)

TotalBalance(st) == BalanceOf(st, <<65>>) + BalanceOf(st, <<66>>)

\* C36: contract item conservation -- in every reachable storage, whatever
\* transfer_item, put_offer, buy_offer or cancel_offer invocation comes next,
\* every item id is held as many times after it as before it (inventories
\* and open offers together), and an invocation that returns False leaves
\* the inventories and the offers as they were.
C36_ItemConservation ==
    \A operation \in {"transfer_item", "put_offer", "buy_offer", "cancel_offer"} :
       \A c \in Invocations(operation) :
          LET r == Invoke(storage, c)
          IN /\ \A m \in ContractMarkets, x \in ItemIds :
                   Held(r.st, m, x) = Held(storage, m, x)
             /\ ~r.ret => SameHoldings(r.st, storage)

C38_OfferIndexConsistent ==
    /\ \A m \in ContractMarkets, i \in 1..(MaxPut + 1) :
          LET id == m \o (OfferWord \o ToByteArray(i))
          IN /\ Get(storage, id) # <<>> <=> CountIn(OffersOf(storage, m), id) > 0
             /\ CountIn(OffersOf(storage, m), id) <= 1
    /\ \A c \in Invocations("put_offer") :
          LET offers == OffersOf(Invoke(storage, c).st, c.args[1])
          IN \A k \in 1..Len(offers) : CountIn(offers, offers[k]) = 1
    /\ \A m \in ContractMarkets, o \in OfferIds :
          LET offer == deserialize_bytearray(get_offer(storage, m, o))
          IN offer # <<>> => remove_offer(storage, m, offer[2]).ret
    /\ \A c \in Invocations("buy_offer") :
          LET r == Invoke(storage, c)
              m == c.args[1]
              buyer == c.args[2]
              offer == OfferRecord(storage, m \o c.args[3])
          IN (\E a \in Addresses : BalanceOf(r.st, a) # BalanceOf(storage, a))
                => /\ r.ret
                   /\ CountIn(OffersOf(r.st, m), offer[2]) = 0
                   /\ CountIn(InventoryOf(r.st, m, buyer), offer[3])
                         = CountIn(InventoryOf(storage, m, buyer), offer[3]) + 1

\* C39: contract permissions -- in every reachable storage, an invocation
\* of give_items, remove_item, transfer_item, put_offer, buy_offer or
\* cancel_offer that is not signed by the owner of the named marketplace
\* returns False and leaves the storage as it was, and so does a
\* cancel_offer for an address that does not own the offer.
C39_Permissions ==
    \A operation \in MarketOperations :
       \A c \in Invocations(operation) :
          LET r == Invoke(storage, c)
              offer == OfferRecord(storage, c.args[1] \o c.args[3])
          IN /\ ~CheckWitness(c.signer, marketplace_owner(storage, c.args[1]))
                   => ~r.ret /\ r.st = storage
             /\ (operation = "cancel_offer" /\ offer # <<>> /\ c.args[2] # offer[1])
                   => ~r.ret /\ r.st = storage

\* an offer is open and an item is held: the owner of the marketplace could
\* cancel the offer for its owner and could give and remove items, the
\* other signer and the other address cannot
C39_Witness ==
    /\ OffersOf(storage, MarketName) # <<>>
    /\ \E a \in Addresses : InventoryOf(storage, MarketName, a) # <<>>
    /\ \E c \in Invocations("cancel_offer") :
          c.signer = MarketOwner /\ Invoke(storage, c).ret
    /\ \E c \in Invocations("cancel_offer") :
          /\ c.signer = MarketOwner
          /\ OfferRecord(storage, c.args[1] \o c.args[3]) # <<>>
          /\ ~Invoke(storage, c).ret
    /\ \E c \in Invocations("remove_item") :
          c.signer = MarketOwner /\ Invoke(storage, c).ret

====
